---- MODULE Spec2Model ----
(***************************************************************************)
(* Whippletree on-chip staging queue (queueShared.cuh).                    *)
(*                                                                         *)
(* SharedBaseQueue      - one fixed-capacity buffer per procedure          *)
(* SharedQueueElement   - the chain of buffers                             *)
(* SharedCombinerQueue  - local chain + external queue                     *)
(*                                                                         *)
(* Records are arrays of 32-bit words (sizeof(ExpectedData)/sizeof(uint)   *)
(* words each); queueData is modelled as the flat word array the code      *)
(* indexes through reinterpret_cast<uint*>.                                *)
(***************************************************************************)
EXTENDS Integers, Sequences, FiniteSets, Bags, TLC

\* ------------------------------------------------------------------ bounds
\* Capacity of the buffer (template parameter NumElements).
NumElements == 3
\* Record sizes 1..MaxWords words are explored.
MaxWords == 2
\* Group sizes (blockDim.x) 1..MaxBlockDim are explored.
MaxBlockDim == 2
\* At most MaxLanes lanes of a warp are active in one enqueue call.
MaxLanes == 2
\* Total number of records offered to enqueue in one run.
MaxRecs == 4
\* Number of dequeue / two-phase calls in one run.
MaxReads == 2
\* Interleaving specification: warps of the group and lanes per warp.
ConcWarps == 2
ConcLanes == 2
\* Combiner specification: entries of the local chain, capacity of the
\* external queue, calls of enqueue and of dequeue in one run.
ChainLen == 2
ExtCap == 2
CombCalls == 2

\* template parameter SharedQueueFillupThreshold = 80
SharedQueueFillupThreshold == 80
\* 0x40000000, the tier marker of a read handle
TierBit == 1073741824

\* ------------------------------------------------------------ small helpers
Min(a, b) == IF a < b THEN a ELSE b
Max(a, b) == IF a > b THEN a ELSE b

\* Content of shared memory that no enqueue has written (queueData is never
\* initialised: clean() zeroes the four header words only).
Junk == 0

\* What a read past the end of queueData yields: a word of whatever lies
\* behind the buffer in shared memory, never a word of a record of this run.
Foreign == -1
\* The word at position x of the word array d.
RdWord(d, x) == IF x \in DOMAIN d THEN d[x] ELSE Foreign

\* Word i of the record with identity r; distinct for distinct (r, i), never Junk.
RecWord(r, i) == r * MaxWords + i + 1
\* The record with identity r as the caller's ExpectedData, w words long.
Rec(r, w) == [i \in 0..(w - 1) |-> RecWord(r, i)]

\* The record stored in slot s of word array d.
Slot(d, s, w) == [i \in 0..(w - 1) |-> d[s * w + i]]

RECURSIVE Perms(_)
Perms(S) ==
  IF S = {} THEN {<<>>}
  ELSE UNION {{<<x>> \o p : p \in Perms(S \ {x})} : x \in S}

\* ------------------------------------------------------- SharedBaseQueue
\* if(counter >= NumElements) return false;
QueueFull(c) == c >= NumElements

\* atomicAdd / atomicSub on counter: new value (the old value is returned).
AtomicAdd(c, v) == c + v
AtomicSub(c, v) == c - v

\* num(): min(counter, NumElements)
Num(c) == Min(c, NumElements)
Count(c) == c

\* The copy loop of enqueue with ThreadsPerElement = 1: every word i of the
\* record goes to word position w*pos + i.
CopyRecordSkipLast(d, pos, rec, w) ==
  [x \in DOMAIN d |->
     IF x \div w = pos /\ x % w < w - 1 THEN rec[x % w] ELSE d[x]]
CopyRecord(d, pos, rec, w) ==
  [x \in DOMAIN d |-> IF x \div w = pos THEN rec[x % w] ELSE d[x]]

\* canPut = max(0, min(NumElements - spos, ourcount))
CanPutAll(spos, ourcount) == ourcount
CanPut(spos, ourcount) == Max(0, Min(NumElements - spos, ourcount))

\* Non-optimized path after the fullness check, for the lanes of todo (a
\* sequence of <<lane, record id>>) in the order their atomicAdd is served.
RECURSIVE NonOptLanes(_, _, _, _, _)
NonOptLanes(c, d, rets, w, todo) ==
  IF todo = <<>> THEN [counter |-> c, data |-> d, rets |-> rets]
  ELSE LET lane == Head(todo)[1]
           rec  == Rec(Head(todo)[2], w)
           spos == c
           c1   == AtomicAdd(c, 1)
       IN IF spos >= NumElements
          THEN NonOptLanes(AtomicSub(c1, 1), d, [rets EXCEPT ![lane] = FALSE],
                           w, Tail(todo))
          ELSE NonOptLanes(c1, CopyRecord(d, spos, rec, w),
                           [rets EXCEPT ![lane] = TRUE], w, Tail(todo))

\* Warp-optimized path after the fullness check: one atomicAdd by the first
\* active lane, the excess given back, lane with rank mypos writes spos + mypos.
RECURSIVE OptLanes(_, _, _, _, _, _)
OptLanes(spos, d, rets, w, todo, mypos) ==
  IF todo = <<>> THEN [data |-> d, rets |-> rets]
  ELSE LET lane == Head(todo)[1]
           rec  == Rec(Head(todo)[2], w)
           qpos == spos + mypos
       IN IF qpos >= NumElements
          THEN OptLanes(spos, d, [rets EXCEPT ![lane] = FALSE], w, Tail(todo),
                        mypos + 1)
          ELSE OptLanes(spos, CopyRecord(d, qpos, rec, w),
                        [rets EXCEPT ![lane] = TRUE], w, Tail(todo), mypos + 1)

OptReserveNoUndo(c, ourcount) == AtomicAdd(c, ourcount)
OptReserve(c, ourcount) ==
  LET spos   == c
      c1     == AtomicAdd(c, ourcount)
      canPut == CanPut(spos, ourcount)
  IN IF canPut < ourcount THEN AtomicSub(c1, ourcount - canPut) ELSE c1

\* One enqueue call by a warp whose active lanes are 1..Len(recs), lane j
\* offering record recs[j]; order is the order in which the lanes' atomics are
\* served. Result: counter, data and the per-lane return values.
EnqueueNoCheck(opt, c, d, w, recs, order) ==
  LET k      == Len(recs)
      allF   == [j \in 1..k |-> FALSE]
      inLane == [j \in 1..k |-> <<j, recs[j]>>]
  IN IF opt
     THEN LET r == OptLanes(c, d, allF, w, inLane, 0)
          IN [counter |-> OptReserve(c, k), data |-> r.data, rets |-> r.rets]
     ELSE NonOptLanes(c, d, allF, w, [j \in 1..k |-> inLane[order[j]]])
RECURSIVE CopyAll(_, _, _, _, _)
CopyAll(d, pos, w, recs, j) ==
  IF j > Len(recs) THEN d
  ELSE CopyAll(CopyRecord(d, pos + j - 1, Rec(recs[j], w), w), pos, w, recs,
               j + 1)
EnqueueUnchecked(opt, c, d, w, recs, order) ==
  [counter |-> AtomicAdd(c, Len(recs)),
   data    |-> CopyAll(d, c, w, recs, 1),
   rets    |-> [j \in 1..Len(recs) |-> TRUE]]
Enqueue(opt, c, d, w, recs, order) ==
  IF QueueFull(c)
  THEN [counter |-> c, data |-> d, rets |-> [j \in 1..Len(recs) |-> FALSE]]
  ELSE EnqueueNoCheck(opt, c, d, w, recs, order)

\* dequeue(data, maxnum), executed by the whole group with no other call in
\* flight: every lane reads the same n.
\* The strided copy of lane tid: words tid, tid + blockDim, ... < w * take.
DequeueCopyLane(out, d, w, offset, take, tid, bdim) ==
  [i \in DOMAIN out |->
     IF i < w * take /\ i % bdim = tid
     THEN RdWord(d, w * offset + i) ELSE out[i]]

RECURSIVE DequeueCopy(_, _, _, _, _, _, _)
DequeueCopy(out, d, w, offset, take, tid, bdim) ==
  IF tid >= bdim THEN out
  ELSE DequeueCopy(DequeueCopyLane(out, d, w, offset, take, tid, bdim),
                   d, w, offset, take, tid + 1, bdim)

DequeueNoClamp(c, d, w, maxnum, bdim) ==
  LET n      == c
      take   == Min(maxnum, n)
      offset == n - take
      out0   == [i \in DOMAIN d |-> Junk]
  IN [counter |-> n - maxnum,
      out     |-> DequeueCopy(out0, d, w, offset, take, 0, bdim),
      take    |-> take]
DequeueOldest(c, d, w, maxnum, bdim) ==
  LET n    == c
      take == Min(maxnum, n)
      out0 == [i \in DOMAIN d |-> Junk]
  IN [counter |-> Max(0, n - maxnum),
      out     |-> DequeueCopy(out0, d, w, 0, take, 0, bdim),
      take    |-> take]
Dequeue(c, d, w, maxnum, bdim) ==
  LET n      == c
      take   == Min(maxnum, n)
      offset == n - take
      out0   == [i \in DOMAIN d |-> Junk]
  IN [counter |-> Max(0, n - maxnum),
      out     |-> DequeueCopy(out0, d, w, offset, take, 0, bdim),
      take    |-> take]

\* reserveRead(maxnum, only_read_all)
ReserveReadNoClamp(c, maxnum, only_read_all) == Min(c, maxnum)
ReserveRead(c, maxnum, only_read_all) ==
  LET n == c
  IN IF only_read_all /\ n < maxnum THEN 0 ELSE Max(0, Min(n, maxnum))

\* startRead(data, num): the index of the first record of the slice.
StartRead(c, num) == c - num

\* One iteration i of finishRead's compaction loop: every lane tid with
\* i + tid < additional reads its word, the group passes the barrier, then the
\* lane writes it num records further down. (A lane's write of iteration i and
\* another lane's read of iteration i + 1 are not separated by a barrier; they
\* touch different words, the read lying at least num*w + 1 words above.)
FinishReadIterNoBarrier(d, w, id, num, additional, i, bdim) ==
  LET lanes == {tid \in 0..(bdim - 1) : i + tid < additional}
      RECURSIVE Go(_, _)
      Go(dd, tid) ==
        IF tid < 0 THEN dd
        ELSE IF tid \in lanes
             THEN Go([dd EXCEPT ![id * w + tid + i] =
                        dd[id * w + tid + num * w + i]], tid - 1)
             ELSE Go(dd, tid - 1)
  IN Go(d, bdim - 1)
FinishReadIter(d, w, id, num, additional, i, bdim) ==
  LET lanes == {tid \in 0..(bdim - 1) : i + tid < additional}
      val   == [tid \in lanes |-> d[id * w + tid + num * w + i]]
  IN [x \in DOMAIN d |->
        IF \E tid \in lanes : x = id * w + tid + i
        THEN val[x - id * w - i]
        ELSE d[x]]

RECURSIVE FinishReadLoop(_, _, _, _, _, _, _)
FinishReadLoop(d, w, id, num, additional, i, bdim) ==
  IF i < additional * w
  THEN FinishReadLoop(FinishReadIter(d, w, id, num, additional, i, bdim),
                      w, id, num, additional, i + bdim, bdim)
  ELSE d

\* finishRead(id, num), executed by the whole group.
FinishRead(c0, d, w, id, num, bdim) ==
  LET c          == c0
      additional == (c - (id + num)) * w
  IN [counter |-> c - num,
      data    |-> IF additional > 0
                  THEN FinishReadLoop(d, w, id, num, additional, 0, bdim)
                  ELSE d]

\* ---------------------------------------------------------------- state
VARIABLES
  warpOpt,    \* TWarpOptimization
  recWords,   \* sizeof(ExpectedData)/sizeof(uint)
  blockDim,   \* blockDim.x, the number of lanes of the group
  counter,    \* SharedBaseQueue::counter
  queueData,  \* SharedBaseQueue::queueData as words
  last,       \* the last call: its name, arguments and return value(s)
  out,        \* the destination of the last dequeue
  nextRec,    \* identity of the next record a caller offers
  accepted,   \* identities of the records whose enqueue returned true
  returned,   \* records handed out by dequeue so far, in order
  reads,      \* number of dequeue / two-phase calls so far
  rd,         \* the two-phase read in progress: its startRead result
  wst,        \* per warp: program position and locals (spos, n, take, ...)
  cfg,        \* run parameters (template parameters, call arguments)
  chain,      \* the local chain: per entry its counter and queueData
  ext         \* the external queue: the records it holds, <<procedure, id>>

vars == <<warpOpt, recWords, blockDim, counter, queueData, last, out, nextRec,
          accepted, returned, reads, rd, wst, cfg, chain, ext>>

NoRead == [open |-> FALSE, id |-> 0, num |-> 0, mark |-> 0]

\* The records in words [0, w*n) of word array d, in array order.
Records(d, w, n) == [s \in 1..n |-> Slot(d, s - 1, w)]

\* ------------------------------------------------- call-level specification
InitSeq ==
  /\ warpOpt \in BOOLEAN
  /\ recWords \in 1..MaxWords
  /\ blockDim \in 1..MaxBlockDim
  /\ counter = 0
  /\ queueData = [x \in 0..(NumElements * recWords - 1) |-> Junk]
  /\ last = [op |-> "init"]
  /\ out = [x \in 0..(NumElements * recWords - 1) |-> Junk]
  /\ nextRec = 0
  /\ accepted = <<>>
  /\ returned = <<>>
  /\ reads = 0
  /\ rd = NoRead
  /\ wst = <<>>
  /\ cfg = <<>>
  /\ chain = <<>>
  /\ ext = <<>>

\* A warp with k active lanes calls enqueue<1>, lane j with record nextRec+j-1.
SeqEnqueue ==
  \E k \in 1..MaxLanes :
    \E order \in Perms(1..k) :
      /\ nextRec + k <= MaxRecs
      /\ LET recs   == [j \in 1..k |-> nextRec + j - 1]
             r      == Enqueue(warpOpt, counter, queueData, recWords, recs, order)
             served == IF warpOpt THEN recs ELSE [j \in 1..k |-> recs[order[j]]]
         IN /\ counter' = r.counter
            /\ queueData' = r.data
            /\ last' = [op |-> "enqueue", recs |-> recs, rets |-> r.rets]
            /\ accepted' = accepted \o
                 SelectSeq(served, LAMBDA x : r.rets[x - nextRec + 1])
      /\ nextRec' = nextRec + k
      /\ UNCHANGED <<warpOpt, recWords, blockDim, out, returned, reads, rd, wst,
                      cfg, chain, ext>>

\* The whole group calls dequeue(data, maxnum).
SeqDequeue ==
  \E maxnum \in 0..NumElements :
    /\ reads < MaxReads
    /\ ~rd.open
    /\ LET r == Dequeue(counter, queueData, recWords, maxnum, blockDim)
       IN /\ counter' = r.counter
          /\ out' = r.out
          /\ last' = [op |-> "dequeue", maxnum |-> maxnum, ret |-> r.take]
          /\ returned' = returned \o Records(r.out, recWords, r.take)
    /\ reads' = reads + 1
    /\ UNCHANGED <<warpOpt, recWords, blockDim, queueData, nextRec, accepted,
                   rd, wst, cfg, chain, ext>>

\* num = reserveRead(maxnum); id = startRead(data, num): the slice
\* [id, id + num) is handed to the caller in place.
SeqStartRead ==
  \E maxnum \in 0..NumElements :
    /\ reads < MaxReads
    /\ ~rd.open
    /\ LET num == ReserveRead(counter, maxnum, FALSE)
           id  == StartRead(counter, num)
       IN /\ rd' = [open |-> TRUE, id |-> id, num |-> num,
                    mark |-> Len(accepted)]
          /\ last' = [op |-> "startRead", maxnum |-> maxnum, ret |-> num,
                      id |-> id]
          /\ returned' = returned \o
               [j \in 1..num |-> Slot(queueData, id + j - 1, recWords)]
    /\ reads' = reads + 1
    /\ UNCHANGED <<warpOpt, recWords, blockDim, counter, queueData, out,
                   nextRec, accepted, wst, cfg, chain, ext>>

\* The whole group calls finishRead(id, num) for the read in progress.
SeqFinishRead ==
  /\ rd.open
  /\ LET r == FinishRead(counter, queueData, recWords, rd.id, rd.num, blockDim)
     IN /\ counter' = r.counter
        /\ queueData' = r.data
  /\ last' = [op |-> "finishRead", id |-> rd.id, num |-> rd.num]
  /\ rd' = NoRead
  /\ UNCHANGED <<warpOpt, recWords, blockDim, out, nextRec, accepted, returned,
                 reads, wst, cfg, chain, ext>>

NextSeq == SeqEnqueue \/ SeqDequeue \/ SeqStartRead \/ SeqFinishRead

SpecSeq == InitSeq /\ [][NextSeq]_vars

\* ------------------------------------------------ interleaving specification
\* Every warp of one group makes at most one enqueue call on a buffer that
\* already holds cfg.c0 records and then joins the group's dequeue, one memory
\* access of a warp per step. In the non-optimized path every lane
\* issues its own atomics, so a warp is followed through one active lane; in
\* the warp-optimized path a warp calls with 1..ConcLanes active lanes.
Warps == 0..(ConcWarps - 1)

\* Identity of the record lane j of warp w offers; the records already in the
\* buffer at the start have identities below NumElements.
ConcRec(w, j) == NumElements + w * ConcLanes + j

RECURSIVE Prefill(_, _, _)
Prefill(d, w, n) ==
  IF n = 0 THEN d ELSE Prefill(CopyRecord(d, n - 1, Rec(n - 1, w), w), w, n - 1)

Idle == [pc |-> "idle", calls |-> 0, k |-> 0, spos |-> -1, n |-> 0, take |-> 0]

InitConc ==
  /\ warpOpt \in BOOLEAN
  /\ recWords \in {1, MaxWords}
  /\ blockDim = ConcWarps * ConcLanes
  /\ counter \in Max(0, NumElements - 2)..NumElements
  /\ queueData = Prefill([x \in 0..(NumElements * recWords - 1) |-> Junk],
                         recWords, counter)
  /\ out = [x \in 0..(NumElements * recWords - 1) |-> Junk]
  /\ cfg \in [maxnum : {1, NumElements}, c0 : {counter}]
  /\ wst = [w \in Warps |-> Idle]
  /\ accepted = <<>>
  /\ last = [op |-> "init"]
  /\ nextRec = 0
  /\ returned = <<>>
  /\ reads = 0
  /\ rd = NoRead
  /\ chain = <<>>
  /\ ext = <<>>

ConcFixed == <<warpOpt, recWords, blockDim, last, nextRec, returned, reads, rd,
               cfg, chain, ext>>

\* ourcount: the records one atomicAdd reserves.
OurCount(k) == IF warpOpt THEN k ELSE 1

\* if(counter >= NumElements) return false;  (lines 91, 119)
CEnqCheck(w) ==
  \E k \in 1..(IF warpOpt THEN ConcLanes ELSE 1) :
    /\ wst[w].pc = "idle"
    /\ wst[w].calls = 0
    /\ wst' = [wst EXCEPT ![w] =
                 IF QueueFull(counter)
                 THEN [@ EXCEPT !.calls = @ + 1]
                 ELSE [@ EXCEPT !.pc = "add", !.k = k]]
    /\ UNCHANGED <<counter, queueData, out, accepted, ConcFixed>>

MustUndoNever(spos, k) == FALSE

\* Whether the reservation starting at spos must give something back.
MustUndo(spos, k) ==
  IF warpOpt THEN CanPut(spos, k) < k ELSE spos >= NumElements

\* spos = atomicAdd(&counter, ourcount);  (lines 98, 124)
CEnqAdd(w) ==
  /\ wst[w].pc = "add"
  /\ counter' = AtomicAdd(counter, OurCount(wst[w].k))
  /\ wst' = [wst EXCEPT ![w] =
               [@ EXCEPT !.spos = counter,
                         !.pc = IF MustUndo(counter, wst[w].k)
                                THEN "sub" ELSE "copy"]]
  /\ UNCHANGED <<queueData, out, accepted, ConcFixed>>

\* atomicSub(&counter, ourcount - canPut) (line 101); atomicSub(&counter, 1)
\* followed by return false (lines 126, 133).
CEnqSub(w) ==
  /\ wst[w].pc = "sub"
  /\ counter' = AtomicSub(counter,
                  IF warpOpt
                  THEN wst[w].k - CanPut(wst[w].spos, wst[w].k)
                  ELSE 1)
  /\ wst' = [wst EXCEPT ![w] =
               IF warpOpt THEN [@ EXCEPT !.pc = "copy"]
               ELSE [@ EXCEPT !.pc = "idle", !.calls = @ + 1, !.spos = -1]]
  /\ UNCHANGED <<queueData, out, accepted, ConcFixed>>

\* The copy loops and the return (lines 108-115, 132-138).
CEnqCopy(w) ==
  /\ wst[w].pc = "copy"
  /\ LET k      == wst[w].k
         recs   == [j \in 1..k |-> ConcRec(w, j - 1)]
         inLane == [j \in 1..k |-> <<j, recs[j]>>]
         r      == OptLanes(wst[w].spos, queueData, [j \in 1..k |-> FALSE],
                            recWords, inLane, 0)
     IN /\ queueData' = r.data
        /\ accepted' = accepted \o SelectSeq(recs,
                         LAMBDA x : r.rets[x - recs[1] + 1])
  /\ wst' = [wst EXCEPT ![w] =
               [@ EXCEPT !.pc = "idle", !.calls = @ + 1, !.spos = -1]]
  /\ UNCHANGED <<counter, out, ConcFixed>>

\* int n = counter;  (line 144) and arrival at __syncthreads (line 145)
CDeqRead(w) ==
  /\ wst[w].pc = "idle"
  /\ wst' = [wst EXCEPT ![w] = [@ EXCEPT !.pc = "barrier", !.n = counter]]
  /\ UNCHANGED <<counter, queueData, out, accepted, ConcFixed>>

\* __syncthreads() releases the group once every warp has arrived.
CDeqBarrier ==
  /\ \A w \in Warps : wst[w].pc = "barrier"
  /\ wst' = [w \in Warps |-> [wst[w] EXCEPT !.pc = "after"]]
  /\ UNCHANGED <<counter, queueData, out, accepted, ConcFixed>>

\* if(threadIdx.x == 0) counter = max(0, n - maxnum);  (lines 146-147)
CDeqWrite(w) ==
  /\ w = 0
  /\ wst[w].pc = "after"
  /\ counter' = Max(0, wst[w].n - cfg.maxnum)
  /\ wst' = [wst EXCEPT ![w] = [@ EXCEPT !.pc = "copyout"]]
  /\ UNCHANGED <<queueData, out, accepted, ConcFixed>>

\* The strided copy of the lanes of warp w and the return of take
\* (lines 148-154).
RECURSIVE WarpCopy(_, _, _, _, _, _)
WarpCopy(o, d, offset, take, tid, lastTid) ==
  IF tid > lastTid THEN o
  ELSE WarpCopy(DequeueCopyLane(o, d, recWords, offset, take, tid, blockDim),
                d, offset, take, tid + 1, lastTid)

CDeqCopy(w) ==
  /\ wst[w].pc = IF w = 0 THEN "copyout" ELSE "after"
  /\ LET n      == wst[w].n
         take   == Min(cfg.maxnum, n)
         offset == n - take
     IN /\ out' = WarpCopy(out, queueData, offset, take, w * ConcLanes,
                           w * ConcLanes + ConcLanes - 1)
        /\ wst' = [wst EXCEPT ![w] = [@ EXCEPT !.pc = "done", !.take = take]]
  /\ UNCHANGED <<counter, queueData, accepted, ConcFixed>>

NextConc ==
  \/ \E w \in Warps : CEnqCheck(w)
  \/ \E w \in Warps : CEnqAdd(w)
  \/ \E w \in Warps : CEnqSub(w)
  \/ \E w \in Warps : CEnqCopy(w)
  \/ \E w \in Warps : CDeqRead(w)
  \/ CDeqBarrier
  \/ \E w \in Warps : CDeqWrite(w)
  \/ \E w \in Warps : CDeqCopy(w)

SpecConc == InitConc /\ [][NextConc]_vars

\* ------------------------------------------------- SharedQueueElement chain
\* Procedure ids; procedures 0..ChainLen-1 own chain entries 1..ChainLen in
\* this order, the last procedure has no shared queue (QueueSize 0).
Procs == 0..ChainLen
ChainProc(e) == e - 1

\* Collaborators outside this file (queueHelpers.cuh, procedure traits).
GetElementCount(p) == cfg.elemCount[p]
GetThreadCount(p) == 1
SharedMemoryOf(p) ==
  IF "sharedMemory" \in DOMAIN cfg THEN cfg.sharedMemory[p] ELSE 0
RecBytes == 4 * recWords

EmptyOut == [x \in 0..(NumElements * recWords - 1) |-> Junk]

\* enqueue<Procedure_>: forwarded along the chain until MyProc matches; the
\* end of the chain returns false.
RECURSIVE ChainEnqueue(_, _, _, _)
ChainEnqueue(ch, e, p, rec) ==
  IF e > ChainLen THEN [chain |-> ch, ret |-> FALSE]
  ELSE IF ChainProc(e) = p
       THEN LET r == Enqueue(warpOpt, ch[e].counter, ch[e].data, recWords,
                             <<rec>>, <<1>>)
            IN [chain |-> [ch EXCEPT ![e] = [counter |-> r.counter,
                                             data |-> r.data]],
                ret   |-> r.rets[1]]
       ELSE ChainEnqueue(ch, e + 1, p, rec)

\* int DequeueThreshold = minPercent*NumElements/100+1;
DequeueThreshold(minPercent) == (minPercent * NumElements) \div 100 + 1

\* maxElements of dequeue (lines 460-462)
MaxElementsDequeue(p, maxShared) ==
  IF maxShared # -1
  THEN Min(GetElementCount(p), maxShared \div (RecBytes + SharedMemoryOf(p)))
  ELSE GetElementCount(p)

\* maxElements of dequeueStartRead (lines 503-505)
MaxElementsStartRead(p, maxShared) ==
  IF maxShared # -1
  THEN Min(GetElementCount(p),
           IF SharedMemoryOf(p) > 0 THEN maxShared \div SharedMemoryOf(p)
           ELSE blockDim)
  ELSE GetElementCount(p)

\* dequeue<MultiProcedure> (lines 457-477, 552); proc = -1: *procId not written.
RECURSIVE ChainDequeueLastFirst(_, _, _, _)
ChainDequeueLastFirst(ch, e, maxShared, minPercent) ==
  IF e > ChainLen
  THEN [chain |-> ch, ret |-> 0, proc |-> -1, out |-> EmptyOut]
  ELSE LET p           == ChainProc(e)
           maxElements == MaxElementsDequeue(p, maxShared)
           c           == Count(ch[e].counter)
           rest        == ChainDequeueLastFirst(ch, e + 1, maxShared, minPercent)
       IN IF rest.ret > 0 THEN rest
          ELSE IF c >= Min(maxElements, DequeueThreshold(minPercent))
               THEN LET r == Dequeue(c, ch[e].data, recWords, maxElements,
                                     blockDim)
                    IN [chain |-> [ch EXCEPT ![e].counter = r.counter],
                        ret   |-> r.take * GetThreadCount(p),
                        proc  |-> IF r.take > 0 THEN p ELSE -1,
                        out   |-> r.out]
               ELSE rest
RECURSIVE ChainDequeue(_, _, _, _)
ChainDequeue(ch, e, maxShared, minPercent) ==
  IF e > ChainLen
  THEN [chain |-> ch, ret |-> 0, proc |-> -1, out |-> EmptyOut]
  ELSE LET p           == ChainProc(e)
           maxElements == MaxElementsDequeue(p, maxShared)
           c           == Count(ch[e].counter)
       IN IF c >= Min(maxElements, DequeueThreshold(minPercent))
          THEN LET r == Dequeue(c, ch[e].data, recWords, maxElements, blockDim)
               IN [chain |-> [ch EXCEPT ![e].counter = r.counter],
                   ret   |-> r.take * GetThreadCount(p),
                   proc  |-> IF r.take > 0 THEN p ELSE -1,
                   out   |-> r.out]
          ELSE ChainDequeue(ch, e + 1, maxShared, minPercent)

\* dequeueSelected<MultiProcedure>(..., procId, maxNum, minPercent)
\* (lines 479-498, 554)
RECURSIVE ChainDequeueSelected(_, _, _, _, _)
ChainDequeueSelected(ch, e, procId, maxNum, minPercent) ==
  IF e > ChainLen
  THEN [chain |-> ch, ret |-> 0, entry |-> 0, out |-> EmptyOut]
  ELSE LET p           == ChainProc(e)
           maxElements == IF maxNum # -1 THEN Min(GetElementCount(p), maxNum)
                          ELSE GetElementCount(p)
           c           == Count(ch[e].counter)
       IN IF c >= Min(maxElements, DequeueThreshold(minPercent))
          THEN LET r == Dequeue(c, ch[e].data, recWords, maxElements, blockDim)
               IN [chain |-> [ch EXCEPT ![e].counter = r.counter],
                   ret   |-> r.take,
                   entry |-> e,
                   out   |-> r.out]
          ELSE ChainDequeueSelected(ch, e + 1, procId, maxNum, minPercent)

\* dequeueStartRead<MultiProcedure> (lines 500-523, 556): int2(c, id)
RECURSIVE ChainDequeueStartRead(_, _, _, _)
ChainDequeueStartRead(ch, e, maxShared, minPercent) ==
  IF e > ChainLen THEN [ret |-> 0, id |-> 0, proc |-> -1]
  ELSE LET p           == ChainProc(e)
           maxElements == MaxElementsStartRead(p, maxShared)
           c           == Count(ch[e].counter)
       IN IF c >= Min(maxElements, DequeueThreshold(minPercent))
          THEN LET c2 == ReserveRead(c, maxElements, FALSE)
               IN IF c2 > 0
                  THEN [ret |-> c2 * GetThreadCount(p),
                        id |-> StartRead(c, c2), proc |-> p]
                  ELSE [ret |-> c2, id |-> 0, proc |-> -1]
          ELSE ChainDequeueStartRead(ch, e + 1, maxShared, minPercent)

\* finishRead<Procedure_> (lines 526-530, 365-389, 558)
RECURSIVE ChainFinishRead(_, _, _, _, _)
ChainFinishRead(ch, e, p, id, num) ==
  IF e > ChainLen THEN ch
  ELSE IF ChainProc(e) = p
       THEN LET r == FinishRead(ch[e].counter, ch[e].data, recWords, id, num,
                                blockDim)
            IN [ch EXCEPT ![e] = [counter |-> r.counter, data |-> r.data]]
       ELSE ChainFinishRead(ch, e + 1, p, id, num)

\* ------------------------------------------------------- external queue
\* ExtQ is a collaborator: a bounded store whose enqueue succeeds while it has
\* space and whose dequeue hands out some records of one procedure, or none.
ExtEnqueue(ex, p, rec) ==
  IF Len(ex) < ExtCap
  THEN [ext |-> Append(ex, <<p, rec>>), ret |-> TRUE]
  ELSE [ext |-> ex, ret |-> FALSE]

ExtCount(ex, p) == Cardinality({i \in DOMAIN ex : ex[i][1] = p})

RECURSIVE ExtRemove(_, _, _)
ExtRemove(ex, p, t) ==
  IF t = 0 \/ ex = <<>> THEN ex
  ELSE IF Head(ex)[1] = p THEN ExtRemove(Tail(ex), p, t - 1)
       ELSE <<Head(ex)>> \o ExtRemove(Tail(ex), p, t)

ExtFirst(ex, p) == CHOOSE i \in DOMAIN ex : ex[i][1] = p /\ \A j \in 1..(i - 1) : ex[j][1] # p

\* What ExtQ::dequeue / dequeueStartRead may answer: count, procedure, and
\* (for a read) the handle it stores in procId[1], an index below TierBit.
ExtOutcomes(ex) ==
  {[ret |-> 0, proc |-> -1, id |-> 0]} \cup
  UNION {{[ret |-> t, proc |-> p, id |-> ExtFirst(ex, p)] :
            t \in 1..ExtCount(ex, p)} : p \in Procs}

\* --------------------------------------------------- SharedCombinerQueue
\* enqueue<PROCEDURE>(data); rnd is the answer of warp_check(100 - chance).
CombinerEnqueueBoth(ch, ex, p, rec, chance, rnd) ==
  LET tryLocal == chance = 0 \/ rnd
      l        == ChainEnqueue(ch, 1, p, rec)
      x        == ExtEnqueue(ex, p, rec)
  IN [chain |-> IF tryLocal THEN l.chain ELSE ch, ext |-> x.ext,
      ret |-> (tryLocal /\ l.ret) \/ x.ret,
      local |-> IF ~tryLocal THEN "skipped"
                ELSE IF l.ret THEN "accepted" ELSE "rejected",
      extCalled |-> ~(tryLocal /\ l.ret)]
CombinerEnqueueNoSpill(ch, ex, p, rec, chance, rnd) ==
  LET tryLocal == chance = 0 \/ rnd
      l        == ChainEnqueue(ch, 1, p, rec)
  IN IF tryLocal
     THEN [chain |-> l.chain, ext |-> ex, ret |-> l.ret,
           local |-> IF l.ret THEN "accepted" ELSE "rejected",
           extCalled |-> FALSE]
     ELSE LET x == ExtEnqueue(ex, p, rec)
          IN [chain |-> ch, ext |-> x.ext, ret |-> x.ret, local |-> "skipped",
              extCalled |-> TRUE]
CombinerEnqueue(ch, ex, p, rec, chance, rnd) ==
  LET tryLocal == chance = 0 \/ rnd
      l        == ChainEnqueue(ch, 1, p, rec)
  IN IF tryLocal /\ l.ret
     THEN [chain |-> l.chain, ext |-> ex, ret |-> TRUE, local |-> "accepted",
           extCalled |-> FALSE]
     ELSE LET x == ExtEnqueue(ex, p, rec)
          IN [chain |-> IF tryLocal THEN l.chain ELSE ch,
              ext |-> x.ext, ret |-> x.ret,
              local |-> IF tryLocal THEN "rejected" ELSE "skipped",
              extCalled |-> TRUE]

Stage(tier, minPercent, ret) ==
  [tier |-> tier, minPercent |-> minPercent, ret |-> ret]

\* dequeue<MultiProcedure>(data, procId, maxShared); x is what ExtQ::dequeue
\* answers if it is called.
CombinerDequeueExtFirst(ch, ex, maxShared, x) ==
  IF x.ret > 0
  THEN [chain |-> ch, ext |-> ExtRemove(ex, x.proc, x.ret), ret |-> x.ret,
        proc |-> x.proc, out |-> EmptyOut,
        stages |-> <<Stage("ext", -1, x.ret)>>]
  ELSE LET l1 == ChainDequeue(ch, 1, maxShared, SharedQueueFillupThreshold)
       IN [chain |-> l1.chain, ext |-> ex, ret |-> l1.ret, proc |-> l1.proc,
           out |-> l1.out,
           stages |-> <<Stage("ext", -1, x.ret),
                        Stage("local", SharedQueueFillupThreshold, l1.ret)>>]
CombinerDequeue(ch, ex, maxShared, x) ==
  LET l1 == ChainDequeue(ch, 1, maxShared, SharedQueueFillupThreshold)
      s1 == Stage("local", SharedQueueFillupThreshold, l1.ret)
      s2 == Stage("ext", -1, x.ret)
  IN IF l1.ret > 0
     THEN [chain |-> l1.chain, ext |-> ex, ret |-> l1.ret, proc |-> l1.proc,
           out |-> l1.out, stages |-> <<s1>>]
     ELSE IF x.ret > 0
          THEN [chain |-> l1.chain, ext |-> ExtRemove(ex, x.proc, x.ret),
                ret |-> x.ret, proc |-> x.proc, out |-> EmptyOut,
                stages |-> <<s1, s2>>]
          ELSE LET l3 == ChainDequeue(l1.chain, 1, maxShared, 0)
               IN [chain |-> l3.chain, ext |-> ex, ret |-> l3.ret,
                   proc |-> l3.proc, out |-> l3.out,
                   stages |-> <<s1, s2, Stage("local", 0, l3.ret)>>]

\* d.y | 0x40000000 for an index d.y below 0x40000000
MarkLocal(id) == id + TierBit
IsLocalNever(handle) == FALSE
IsLocal(handle) == (handle \div TierBit) % 2 = 1
Unmark(handle) == handle % TierBit

\* dequeueStartRead<MultiProcedure>(data, procId, maxShared): the count
\* returned and procId[1]; x is what ExtQ::dequeueStartRead answers if called.
CombinerDequeueStartRead(ch, ex, maxShared, x) ==
  LET l1 == ChainDequeueStartRead(ch, 1, maxShared, SharedQueueFillupThreshold)
      s1 == Stage("local", SharedQueueFillupThreshold, l1.ret)
      s2 == Stage("ext", -1, x.ret)
  IN IF l1.ret > 0
     THEN [ret |-> l1.ret, proc |-> l1.proc, handle |-> MarkLocal(l1.id),
           stages |-> <<s1>>]
     ELSE IF x.ret > 0
          THEN [ret |-> x.ret, proc |-> x.proc, handle |-> x.id,
                stages |-> <<s1, s2>>]
          ELSE LET l3 == ChainDequeueStartRead(ch, 1, maxShared, 0)
               IN [ret |-> l3.ret, proc |-> l3.proc,
                   handle |-> IF l3.ret > 0 THEN MarkLocal(l3.id) ELSE x.id,
                   stages |-> <<s1, s2, Stage("local", 0, l3.ret)>>]

\* finishRead<PROCEDURE>(id, num) (lines 742-758)
CombinerFinishRead(ch, ex, p, handle, num) ==
  IF IsLocal(handle)
  THEN [chain |-> ChainFinishRead(ch, 1, p, Unmark(handle), num), ext |-> ex,
        tier |-> "local"]
  ELSE [chain |-> ch, ext |-> ExtRemove(ex, p, num), tier |-> "ext"]

\* --------------------------------------------------- combiner specification
\* Records in the tiers at the start: entry e holds identities
\* (e-1)*NumElements .. ; the external queue holds the following ones.
ChainStart(e, n) ==
  [counter |-> n,
   data |-> [x \in 0..(NumElements * recWords - 1) |->
               IF x \div recWords < n
               THEN RecWord((e - 1) * NumElements + x \div recWords, x % recWords)
               ELSE Junk]]
ExtStart(n) == [i \in 1..n |-> <<i % (ChainLen + 1), ChainLen * NumElements + i>>]
FirstNew == ChainLen * NumElements + ExtCap + 1

InitComb ==
  /\ warpOpt \in BOOLEAN
  /\ recWords = 1
  /\ blockDim = MaxBlockDim
  /\ cfg \in [chance : {0, 50},
              elemCount : {[p \in 0..(ChainLen - 1) |-> n] : n \in {1, NumElements}}]
  /\ \E f \in [1..ChainLen -> {0, 1, NumElements}] :
       chain = [e \in 1..ChainLen |-> ChainStart(e, f[e])]
  /\ ext \in {ExtStart(0), ExtStart(ExtCap)}
  /\ counter = 0
  /\ queueData = <<>>
  /\ out = <<>>
  /\ last = [op |-> "init"]
  /\ nextRec = 0
  /\ accepted = <<>>
  /\ returned = <<>>
  /\ reads = 0
  /\ rd = NoRead
  /\ wst = <<>>

\* maxShared of a request: unlimited, or room for one record.
CombMaxShared == {-1, 4}

CombFixed == <<warpOpt, recWords, blockDim, counter, queueData, accepted,
               returned, wst, cfg>>

\* One lane calls enqueue<PROCEDURE>(data).
CombEnqueue ==
  \E p \in Procs, rnd \in BOOLEAN :
    /\ nextRec + reads < CombCalls
    /\ ~rd.open
    /\ LET r == CombinerEnqueue(chain, ext, p, FirstNew + nextRec, cfg.chance,
                                rnd)
       IN /\ chain' = r.chain
          /\ ext' = r.ext
          /\ last' = [op |-> "enqueue", proc |-> p, rec |-> FirstNew + nextRec,
                      ret |-> r.ret, local |-> r.local,
                      extCalled |-> r.extCalled]
    /\ nextRec' = nextRec + 1
    /\ UNCHANGED <<out, reads, rd, CombFixed>>

\* The group calls dequeue<MultiProcedure>(data, procId, maxShared).
CombDequeue ==
  \E maxShared \in CombMaxShared, x \in ExtOutcomes(ext) :
    /\ nextRec + reads < CombCalls
    /\ ~rd.open
    /\ LET r == CombinerDequeue(chain, ext, maxShared, x)
       IN /\ chain' = r.chain
          /\ ext' = r.ext
          /\ out' = r.out
          /\ last' = [op |-> "dequeue", ret |-> r.ret, proc |-> r.proc,
                      stages |-> r.stages]
    /\ reads' = reads + 1
    /\ UNCHANGED <<nextRec, rd, CombFixed>>

\* The group calls dequeueStartRead<MultiProcedure>(data, procId, maxShared).
CombDequeueStartRead ==
  \E maxShared \in CombMaxShared, x \in ExtOutcomes(ext) :
    /\ nextRec + reads < CombCalls
    /\ ~rd.open
    /\ LET r == CombinerDequeueStartRead(chain, ext, maxShared, x)
       IN /\ last' = [op |-> "dequeueStartRead", ret |-> r.ret,
                      proc |-> r.proc, stages |-> r.stages,
                      handle |-> r.handle]
          /\ rd' = IF r.ret > 0
                   THEN [open |-> TRUE, id |-> r.handle,
                         num |-> r.ret \div GetThreadCount(r.proc),
                         mark |-> r.proc]
                   ELSE NoRead
    /\ reads' = reads + 1
    /\ UNCHANGED <<chain, ext, out, nextRec, CombFixed>>

\* The group calls finishRead<PROCEDURE>(procId[1], num) for the open read.
CombFinishRead ==
  /\ rd.open
  /\ LET r == CombinerFinishRead(chain, ext, rd.mark, rd.id, rd.num)
     IN /\ chain' = r.chain
        /\ ext' = r.ext
        /\ last' = [op |-> "finishRead", handle |-> rd.id, num |-> rd.num,
                    tier |-> r.tier]
  /\ rd' = NoRead
  /\ UNCHANGED <<out, nextRec, reads, CombFixed>>

NextComb ==
  CombEnqueue \/ CombDequeue \/ CombDequeueStartRead \/ CombFinishRead

SpecComb == InitComb /\ [][NextComb]_vars

\* The combiner over procedures of which one needs shared memory of its own
\* (MyProc::sharedMemory > 0), in either chain order.
ProcSharedMemory == 4

InitResidual ==
  /\ warpOpt = TRUE
  /\ recWords = 1
  /\ blockDim = MaxBlockDim
  /\ cfg \in [chance : {0},
              elemCount : {[p \in 0..(ChainLen - 1) |-> n] : n \in {1, NumElements}},
              sharedMemory : {[p \in Procs |-> IF p = q THEN ProcSharedMemory ELSE 0] :
                                q \in {0, ChainLen - 1}}]
  /\ \E f \in [1..ChainLen -> {0, 1, NumElements}] :
       chain = [e \in 1..ChainLen |-> ChainStart(e, f[e])]
  /\ ext \in {ExtStart(0), ExtStart(ExtCap)}
  /\ counter = 0
  /\ queueData = <<>>
  /\ out = <<>>
  /\ last = [op |-> "init"]
  /\ nextRec = 0
  /\ accepted = <<>>
  /\ returned = <<>>
  /\ reads = 0
  /\ rd = NoRead
  /\ wst = <<>>

SpecResidual == InitResidual /\ [][NextComb]_vars

\* ------------------------------------------------------ chain specification
\* Calls on the SharedQueueElement chain itself.
ChainCalls == 2
ChainPercents == {0, SharedQueueFillupThreshold}
ChainMaxShared == {-1, 0, 4}
ChainMaxNum == {-1, 1}
ChainReadMax == {-1, 1, NumElements}

InitChain ==
  /\ warpOpt \in BOOLEAN
  /\ recWords = 1
  /\ blockDim = MaxBlockDim
  /\ cfg \in [elemCount : {[p \in 0..(ChainLen - 1) |-> n] : n \in {1, NumElements}}]
  /\ \E f \in [1..ChainLen -> {0, 1, NumElements}] :
       chain = [e \in 1..ChainLen |-> ChainStart(e, f[e])]
  /\ ext = <<>>
  /\ counter = 0
  /\ queueData = <<>>
  /\ out = <<>>
  /\ last = [op |-> "init"]
  /\ nextRec = 0
  /\ accepted = <<>>
  /\ returned = <<>>
  /\ reads = 0
  /\ rd = NoRead
  /\ wst = <<>>

ChainFixed == <<warpOpt, recWords, blockDim, counter, queueData, accepted,
                returned, wst, cfg, ext, rd>>

\* One lane calls enqueue<Procedure_>(sQueueStartPointer, data).
ChEnqueue ==
  \E p \in Procs :
    /\ nextRec + reads < ChainCalls
    /\ LET r == ChainEnqueue(chain, 1, p, FirstNew + nextRec)
       IN /\ chain' = r.chain
          /\ last' = [op |-> "enqueue", proc |-> p, rec |-> FirstNew + nextRec,
                      ret |-> r.ret]
    /\ nextRec' = nextRec + 1
    /\ UNCHANGED <<out, reads, ChainFixed>>

\* The group calls dequeue<MultiProcedure>(..., maxShared, minPercent).
ChDequeue ==
  \E maxShared \in ChainMaxShared, minPercent \in ChainPercents :
    /\ nextRec + reads < ChainCalls
    /\ LET r == ChainDequeue(chain, 1, maxShared, minPercent)
       IN /\ chain' = r.chain
          /\ out' = r.out
          /\ last' = [op |-> "dequeue", maxShared |-> maxShared,
                      minPercent |-> minPercent, ret |-> r.ret,
                      proc |-> r.proc]
    /\ reads' = reads + 1
    /\ UNCHANGED <<nextRec, ChainFixed>>

\* The group calls dequeueSelected<MultiProcedure>(..., procId, maxNum,
\* minPercent).
ChDequeueSelected ==
  \E procId \in Procs, maxNum \in ChainMaxNum, minPercent \in ChainPercents :
    /\ nextRec + reads < ChainCalls
    /\ LET r == ChainDequeueSelected(chain, 1, procId, maxNum, minPercent)
       IN /\ chain' = r.chain
          /\ out' = r.out
          /\ last' = [op |-> "dequeueSelected", procId |-> procId,
                      maxNum |-> maxNum, minPercent |-> minPercent,
                      ret |-> r.ret]
    /\ reads' = reads + 1
    /\ UNCHANGED <<nextRec, ChainFixed>>

\* The group calls dequeueStartRead<MultiProcedure>(..., maxShared,
\* minPercent).
ChDequeueStartRead ==
  \E maxShared \in ChainMaxShared, minPercent \in ChainPercents :
    /\ nextRec + reads < ChainCalls
    /\ LET r == ChainDequeueStartRead(chain, 1, maxShared, minPercent)
       IN last' = [op |-> "dequeueStartRead", maxShared |-> maxShared,
                   minPercent |-> minPercent, ret |-> r.ret, id |-> r.id,
                   proc |-> r.proc]
    /\ reads' = reads + 1
    /\ UNCHANGED <<chain, out, nextRec, ChainFixed>>

\* reserveRead(maxnum, only_read_all) followed by startRead(data, num) on the
\* buffer of entry e.
ChStartRead ==
  \E e \in 1..ChainLen, maxnum \in ChainReadMax, only_read_all \in BOOLEAN :
    /\ nextRec + reads < ChainCalls
    /\ LET num == ReserveRead(chain[e].counter, maxnum, only_read_all)
           id  == StartRead(chain[e].counter, num)
       IN last' = [op |-> "startRead", entry |-> e, maxnum |-> maxnum,
                   only_read_all |-> only_read_all, ret |-> num, id |-> id]
    /\ reads' = reads + 1
    /\ UNCHANGED <<chain, out, nextRec, ChainFixed>>

NextChain ==
  \/ ChEnqueue
  \/ ChDequeue
  \/ ChDequeueSelected
  \/ ChDequeueStartRead
  \/ ChStartRead

SpecChain == InitChain /\ [][NextChain]_vars

\* ---------------------------------------------------- barrier specification
\* The lanes of one group execute dequeue(data, maxnum) or finishRead(id, num)
\* statement by statement. __syncthreads() releases the lanes once every lane
\* of the group waits at a barrier; a lane that has returned never arrives.
Lanes == 0..(blockDim - 1)

BarrierPcs == {"fr_sync1", "fr_syncL", "fr_sync2", "fr_sync3", "dq_sync"}

AfterBarrier(pc) ==
  CASE pc = "fr_sync1" -> "fr_read"
    [] pc = "fr_syncL" -> "fr_store"
    [] pc = "fr_sync2" -> "fr_write"
    [] pc = "fr_sync3" -> "done"
    [] pc = "dq_sync"  -> "dq_write"

\* The __syncthreads() of the compaction loop (line 188) stands outside the
\* if(i + threadIdx.x < additional) tests: every lane in the loop reaches it.
LoopBarrierGuarded(tid, i, additional) == i + tid < additional
LoopBarrierReached(tid, i, additional) == TRUE

BarCalls ==
  [op : {"dequeue"}, maxnum : 0..NumElements, id : {0}, num : {0}] \cup
  {c \in [op : {"finishRead"}, maxnum : {0}, id : 0..NumElements,
          num : 0..NumElements] : c.id + c.num <= counter}

InitBar ==
  /\ warpOpt = TRUE
  /\ recWords \in 1..MaxWords
  /\ blockDim \in 1..MaxBlockDim
  /\ counter \in 0..NumElements
  /\ queueData = Prefill([x \in 0..(NumElements * recWords - 1) |-> Junk],
                         recWords, counter)
  /\ cfg \in BarCalls
  /\ wst = [t \in Lanes |->
              [pc |-> IF cfg.op = "dequeue" THEN "dq_read" ELSE "fr_sync1",
               c |-> 0, add |-> 0, i |-> 0, d |-> 0, n |-> 0, ret |-> 0,
               bars |-> 0]]
  /\ out = [x \in 0..(NumElements * recWords - 1) |-> Junk]
  /\ last = [op |-> "init", counter |-> counter, data |-> queueData]
  /\ nextRec = 0
  /\ accepted = <<>>
  /\ returned = <<>>
  /\ reads = 0
  /\ rd = NoRead
  /\ chain = <<>>
  /\ ext = <<>>

BarFixed == <<warpOpt, recWords, blockDim, last, nextRec, accepted, returned,
              reads, rd, chain, ext, cfg>>

\* __syncthreads(): all lanes wait at a barrier and are released together.
BarSync ==
  /\ \A t \in Lanes : wst[t].pc \in BarrierPcs
  /\ wst' = [t \in Lanes |->
               [wst[t] EXCEPT !.pc = AfterBarrier(@), !.bars = @ + 1]]
  /\ UNCHANGED <<counter, queueData, out, BarFixed>>

\* int c = counter; int additional = ...; if(additional > 0)  (lines 175-179)
FrRead(t) ==
  /\ wst[t].pc = "fr_read"
  /\ LET c   == counter
         add == (c - (cfg.id + cfg.num)) * recWords
     IN wst' = [wst EXCEPT ![t] =
                  [@ EXCEPT !.c = c, !.add = add, !.i = 0,
                            !.pc = IF add > 0 THEN "fr_loop" ELSE "fr_sync2"]]
  /\ UNCHANGED <<counter, queueData, out, BarFixed>>

\* the loop test and the guarded load of iteration i (lines 183-187)
FrLoop(t) ==
  /\ wst[t].pc = "fr_loop"
  /\ LET l == wst[t]
     IN wst' = [wst EXCEPT ![t] =
          IF l.i < l.add * recWords
          THEN [l EXCEPT
                  !.d = IF l.i + t < l.add
                        THEN RdWord(queueData, cfg.id * recWords + t
                                                 + cfg.num * recWords + l.i)
                        ELSE 0,
                  !.pc = IF LoopBarrierReached(t, l.i, l.add)
                         THEN "fr_syncL" ELSE "fr_store"]
          ELSE [l EXCEPT !.pc = "fr_sync2"]]
  /\ UNCHANGED <<counter, queueData, out, BarFixed>>

\* the guarded store and i += blockDim.x (lines 189-190, 183)
FrStore(t) ==
  /\ wst[t].pc = "fr_store"
  /\ LET l == wst[t]
     IN /\ queueData' = IF l.i + t < l.add
                        THEN [queueData EXCEPT
                                ![cfg.id * recWords + t + l.i] = l.d]
                        ELSE queueData
        /\ wst' = [wst EXCEPT ![t] =
                     [l EXCEPT !.i = l.i + blockDim, !.pc = "fr_loop"]]
  /\ UNCHANGED <<counter, out, BarFixed>>

\* if(threadIdx.x == 0) counter = c - num;  (lines 194-198)
FrWrite(t) ==
  /\ wst[t].pc = "fr_write"
  /\ counter' = IF t = 0 THEN wst[t].c - cfg.num ELSE counter
  /\ wst' = [wst EXCEPT ![t] = [@ EXCEPT !.pc = "fr_sync3"]]
  /\ UNCHANGED <<queueData, out, BarFixed>>

\* int n = counter;  (line 144)
DqRead(t) ==
  /\ wst[t].pc = "dq_read"
  /\ wst' = [wst EXCEPT ![t] = [@ EXCEPT !.n = counter, !.pc = "dq_sync"]]
  /\ UNCHANGED <<counter, queueData, out, BarFixed>>

\* if(threadIdx.x == 0) counter = max(0, n - maxnum);  (lines 146-147)
DqWrite(t) ==
  /\ wst[t].pc = "dq_write"
  /\ counter' = IF t = 0 THEN Max(0, wst[t].n - cfg.maxnum) ELSE counter
  /\ wst' = [wst EXCEPT ![t] = [@ EXCEPT !.pc = "dq_copy"]]
  /\ UNCHANGED <<queueData, out, BarFixed>>

\* take, offset, the lane's strided copy and return take  (lines 148-154)
DqCopy(t) ==
  /\ wst[t].pc = "dq_copy"
  /\ LET take   == Min(cfg.maxnum, wst[t].n)
         offset == wst[t].n - take
     IN /\ out' = DequeueCopyLane(out, queueData, recWords, offset, take, t,
                                  blockDim)
        /\ wst' = [wst EXCEPT ![t] = [@ EXCEPT !.ret = take, !.pc = "done"]]
  /\ UNCHANGED <<counter, queueData, BarFixed>>

NextBar ==
  \/ BarSync
  \/ \E t \in Lanes : FrRead(t)
  \/ \E t \in Lanes : FrLoop(t)
  \/ \E t \in Lanes : FrStore(t)
  \/ \E t \in Lanes : FrWrite(t)
  \/ \E t \in Lanes : DqRead(t)
  \/ \E t \in Lanes : DqWrite(t)
  \/ \E t \in Lanes : DqCopy(t)

SpecBar == InitBar /\ [][NextBar]_vars

\* A lane that can take a step eventually takes one.
SpecBarLive == SpecBar /\ WF_vars(NextBar)

\* ------------------------------------------------------ layout planner
\* A directive list is a sequence of entries [kind, arg, bytes]:
\*   "num"  - SQElementFixedNum<Proc, TNum>,           arg = TNum
\*   "size" - SQElementFixedSize<Proc, TSize>,         arg = TSize
\*   "dyn"  - SQElementDyn<Proc, TRemainingSizeRatio>, arg = the ratio
\* bytes = sizeof(Proc::ExpectedData).

\* int division of C++ (truncation towards zero), divisor > 0
CDiv(a, b) == IF a >= 0 THEN a \div b ELSE -((-a) \div b)

\* sizeof(...) has type size_t: an int expression divided by it is converted
\* to 64 bits unsigned first, so a negative dividend a stands for 2^64 + a.
\* 2^64 / b is taken by long division over digits of 16 bits.
FloorDiv(a, b) == IF a >= 0 THEN a \div b ELSE -(((-a) + b - 1) \div b)
Digit == 65536
RECURSIVE LongDiv(_, _, _, _)
LongDiv(digits, b, r, q) ==
  IF digits = <<>> THEN [q |-> q, r |-> r]
  ELSE LET cur == r * Digit + Head(digits)
       IN LongDiv(Tail(digits), b, cur % b, Append(q, cur \div b))
TwoTo64Div(b) == LongDiv(<<1, 0, 0, 0, 0>>, b, 0, <<>>)

\* static const int x = a / sizeof(T): the quotient of the unsigned division,
\* narrowed to int (its low 32 bits as a signed value).
SizeTQuot(a, b) ==
  IF a >= 0 THEN a \div b
  ELSE LET d   == TwoTo64Div(b)
           hi  == d.q[4]
           lo  == d.q[5]
           adj == FloorDiv(d.r + a, b)
       IN (IF hi >= Digit \div 2 THEN hi - Digit ELSE hi) * Digit + lo + adj

\* a / sizeof(T) * sizeof(T) + HeaderSize in size_t, as the int template
\* argument of Make16: the value if it fits an int, NoInt if it does not (a
\* narrowing conversion of a constant, which is ill-formed).
NoInt == -1

\* Make16<Size>::Res
Make16(size) == CDiv(size + 15, 16) * 16

\* SharedBaseQueue::HeaderSize = 4*sizeof(uint)
HeaderSize == 16

\* Overall::Size of an entry that does not depend on the budget
FixedEntrySize(e) ==
  IF e.kind = "num" THEN Make16(e.arg * e.bytes + HeaderSize)
  ELSE Make16(e.arg)

\* Overall::FixedSize of the list from entry i on
RECURSIVE FixedSize(_, _)
FixedSize(list, i) ==
  IF i > Len(list) THEN 0
  ELSE IF list[i].kind = "dyn" THEN FixedSize(list, i + 1)
       ELSE FixedSize(list, i + 1) + FixedEntrySize(list[i])

\* Overall::CountDynamicSize of the list from entry i on
RECURSIVE CountDynamicSize(_, _)
CountDynamicSize(list, i) ==
  IF i > Len(list) THEN 0
  ELSE IF list[i].kind = "dyn"
       THEN Make16(CountDynamicSize(list, i + 1) + list[i].arg)
       ELSE CountDynamicSize(list, i + 1)

\* SQElementDyn::Overall::Size with RootOverallNode the head of the list
DynArg(list, e, MaxSize) ==
  LET a == CDiv(MaxSize - FixedSize(list, 1), CountDynamicSize(list, 1))
             - HeaderSize
      b == e.bytes
  IN IF a >= 0 THEN (a \div b) * b + HeaderSize
     ELSE LET m == TwoTo64Div(b).r + a
              t == (-a) + (m - FloorDiv(m, b) * b)
          IN IF t <= HeaderSize THEN HeaderSize - t ELSE NoInt
DynSize(list, e, MaxSize) ==
  IF DynArg(list, e, MaxSize) = NoInt THEN 0
  ELSE Make16(DynArg(list, e, MaxSize))

\* Overall::Size of entry i
EntrySizeNoRound(list, i, MaxSize) ==
  IF list[i].kind = "dyn" THEN DynSize(list, list[i], MaxSize)
  ELSE IF list[i].kind = "num" THEN list[i].arg * list[i].bytes + HeaderSize
       ELSE list[i].arg
EntrySize(list, i, MaxSize) ==
  IF list[i].kind = "dyn" THEN DynSize(list, list[i], MaxSize)
  ELSE FixedEntrySize(list[i])

\* Overall::NumElements of entry i
EntryNumElements(list, i, MaxSize) ==
  IF list[i].kind = "num" THEN list[i].arg
  ELSE IF list[i].kind = "size"
       THEN SizeTQuot(list[i].arg - HeaderSize, list[i].bytes)
       ELSE SizeTQuot(EntrySize(list, i, MaxSize) - HeaderSize, list[i].bytes)

\* Overall::SumSize of the list from entry i on
RECURSIVE SumSize(_, _, _)
SumSize(list, i, MaxSize) ==
  IF i > Len(list) THEN 0
  ELSE SumSize(list, i + 1, MaxSize) + EntrySize(list, i, MaxSize)

\* PrevSize of chain element i: the Sizes of the elements before it
RECURSIVE PrevSize(_, _, _)
PrevSize(list, i, MaxSize) ==
  IF i = 1 THEN 0
  ELSE PrevSize(list, i - 1, MaxSize) + EntrySize(list, i - 1, MaxSize)

\* requiredShared of chain element i and the static_assert of every element
RequiredShared(list, i, MaxSize) == SumSize(list, i, MaxSize)
StaticAssertNone(list, MaxSize) == TRUE
StaticAssert(list, MaxSize) ==
  \A i \in 1..Len(list) : RequiredShared(list, i, MaxSize) <= MaxSize

\* ExpectedData queueData[NumElements] of every element's SharedBaseQueue: a
\* negative bound does not compile; a bound of 0 compiles only where the
\* compiler accepts zero-length arrays (zeroOk).
ArrayBounds(list, MaxSize, zeroOk) ==
  \A i \in 1..Len(list) :
    /\ EntryNumElements(list, i, MaxSize) >= 0
    /\ zeroOk \/ EntryNumElements(list, i, MaxSize) # 0

\* Every int template argument computed in size_t fits an int.
TemplateArgsFit(list, MaxSize) ==
  \A i \in 1..Len(list) :
    list[i].kind = "dyn" => DynArg(list, list[i], MaxSize) # NoInt

\* The chain the instantiation yields: myQ offset, Size and NumElements
Layout(list, MaxSize) ==
  [i \in 1..Len(list) |->
     [offset      |-> PrevSize(list, i, MaxSize),
      size        |-> EntrySize(list, i, MaxSize),
      numElements |-> EntryNumElements(list, i, MaxSize),
      kind        |-> list[i].kind,
      arg         |-> list[i].arg,
      bytes       |-> list[i].bytes]]

\* ---------------------------------------------------- planner specification
PlanEntries == 3
PlanNums == {1, 100}
PlanSizes == {8, 24}
PlanRatios == {1, 2}
PlanBytes == {4, 12}
PlanBudgets == {64, 256, 1024}

Directives ==
  [kind : {"num"}, arg : PlanNums, bytes : PlanBytes] \cup
  [kind : {"size"}, arg : PlanSizes, bytes : PlanBytes] \cup
  [kind : {"dyn"}, arg : PlanRatios, bytes : PlanBytes]

DirectiveLists == UNION {[1..n -> Directives] : n \in 1..PlanEntries}

InitPlan ==
  /\ cfg \in [list : DirectiveLists, MaxSize : PlanBudgets]
  /\ chain = <<>>
  /\ last = [op |-> "init"]
  /\ warpOpt = TRUE
  /\ recWords = 1
  /\ blockDim = 1
  /\ counter = 0
  /\ queueData = <<>>
  /\ out = <<>>
  /\ nextRec = 0
  /\ accepted = <<>>
  /\ returned = <<>>
  /\ reads = 0
  /\ rd = NoRead
  /\ wst = <<>>
  /\ ext = <<>>

PlanFixed == <<warpOpt, recWords, blockDim, counter, queueData, out, nextRec,
               accepted, returned, reads, rd, wst, ext, cfg>>

\* The build instantiates SharedQueueElement for the list: either the
\* static_assert of some element fails and there is no program, or the chain
\* is laid out.
PlanBuild ==
  \E zeroOk \in BOOLEAN :
    /\ last.op = "init"
    /\ LET ok == /\ TemplateArgsFit(cfg.list, cfg.MaxSize)
                 /\ StaticAssert(cfg.list, cfg.MaxSize)
                 /\ ArrayBounds(cfg.list, cfg.MaxSize, zeroOk)
       IN /\ last' = [op |-> "build", accepted |-> ok]
          /\ chain' = IF ok THEN Layout(cfg.list, cfg.MaxSize) ELSE <<>>
    /\ UNCHANGED PlanFixed

NextPlan == PlanBuild

SpecPlan == InitPlan /\ [][NextPlan]_vars

\* ------------------------------------------------------------ properties
SeqToBag(q) ==
  [x \in {q[i] : i \in DOMAIN q} |-> Cardinality({i \in DOMAIN q : q[i] = x})]

\* C1: as long as only enqueue calls were made, counter is the number of
\* enqueues that returned true and the accepted records fill the slots below
\* counter unchanged; once the buffer has been drained again, the records
\* handed out are, as a multiset, the records whose enqueue returned true.
C1_EnqueueThenDrain ==
  /\ reads = 0 =>
       /\ counter = Len(accepted)
       /\ \A j \in 1..Len(accepted) :
            Slot(queueData, j - 1, recWords) = Rec(accepted[j], recWords)
  /\ (counter = 0 /\ ~rd.open) =>
       SeqToBag(returned) =
         SeqToBag([j \in 1..Len(accepted) |-> Rec(accepted[j], recWords)])

C1_Witness ==
  /\ last.op = "dequeue"
  /\ counter = 0
  /\ last.ret < NumElements
  /\ Len(returned) = NumElements
  /\ Len(accepted) = NumElements
  /\ nextRec > NumElements

\* C2: an enqueue call made when counter = NumElements returns false in every
\* lane and leaves counter and every word of queueData as they were.
C2_FullEnqueueFails ==
  [][(last'.op = "enqueue" /\ counter = NumElements) =>
       /\ \A j \in DOMAIN last'.rets : ~last'.rets[j]
       /\ counter' = counter
       /\ queueData' = queueData]_vars

C2_Witness ==
  /\ last.op = "enqueue"
  /\ \A j \in DOMAIN last.rets : ~last.rets[j]
  /\ counter = NumElements
  /\ Len(accepted) = NumElements
  /\ warpOpt

\* C4: dequeue(out, maxnum) with nothing else in flight returns
\* min(maxnum, counter) and lowers counter by what it returned.
C4_DequeueCount ==
  [][last'.op = "dequeue" =>
       /\ last'.ret = Min(last'.maxnum, counter)
       /\ counter' = counter - last'.ret]_vars

C4_Witness ==
  /\ last.op = "dequeue"
  /\ last.ret > 0
  /\ last.maxnum > last.ret
  /\ counter = 0

\* C5: dequeue copies the records at [n - take, n) to the destination in array
\* order and nothing else, these are the take records accepted last, and the
\* record array keeps its contents.
C5_DequeueNewest ==
  [][last'.op = "dequeue" =>
       LET take == last'.ret
           n    == counter
       IN /\ \A j \in 0..(take - 1) :
               Slot(out', j, recWords) = Slot(queueData, n - take + j, recWords)
          /\ \A x \in DOMAIN out' : x >= take * recWords => out'[x] = Junk
          /\ queueData' = queueData
          /\ reads = 0 =>
               \A j \in 0..(take - 1) :
                 Slot(out', j, recWords) =
                   Rec(accepted[Len(accepted) - take + j + 1], recWords)]_vars

C5_Witness ==
  /\ last.op = "dequeue"
  /\ last.ret = 2
  /\ counter = 1
  /\ reads = 1
  /\ blockDim > 1

\* C6: finishRead(id, num) after k records were accepted since startRead:
\* counter drops by num, the records below id stay, and the k records accepted
\* during the read lie at [id, id + k) in the order they were accepted.
C6_FinishReadDense ==
  [][last'.op = "finishRead" =>
       LET id     == rd.id
           num    == rd.num
           k      == counter - (id + num)
           during == SubSeq(accepted, rd.mark + 1, Len(accepted))
       IN /\ counter' = counter - num
          /\ k = Len(during)
          /\ \A s \in 0..(id - 1) :
               Slot(queueData', s, recWords) = Slot(queueData, s, recWords)
          /\ \A j \in 1..k :
               Slot(queueData', id + j - 1, recWords) = Rec(during[j], recWords)]_vars

C6_Witness ==
  /\ last.op = "finishRead"
  /\ last.num >= 1
  /\ counter >= last.id + 2
  /\ blockDim >= 2

\* ---- interleaving properties

\* The slots a warp has reserved with its atomicAdd and not yet finished with.
Reserved(w) ==
  IF wst[w].pc \in {"sub", "copy"}
  THEN wst[w].spos..(wst[w].spos + OurCount(wst[w].k) - 1)
  ELSE {}

\* C3: counter stays within [0, NumElements] in every state, the states
\* between the atomics of racing enqueue calls included.
C3_CountInRange == 0 <= counter /\ counter <= NumElements

AllDone == \A w \in Warps : wst[w].pc = "done"

KnownRecs == {Rec(r, recWords) : r \in 0..(NumElements + ConcWarps * ConcLanes)}
Complete(s) == Slot(queueData, s, recWords) \in KnownRecs

\* C7: when every lane has returned from dequeue, counter is the initial
\* count plus the accepted records minus the records the dequeue took, and
\* the accepted records together with the initial ones are exactly those in
\* the destination plus those below counter.
C7_EnqueueDequeueRaceFree ==
  AllDone =>
    \E t \in {wst[w].take : w \in Warps} :
      /\ counter = cfg.c0 + Len(accepted) - t
      /\ counter <= NumElements
      /\ SeqToBag([j \in 1..t |->
                     [i \in 0..(recWords - 1) |-> RdWord(out, (j - 1) * recWords + i)]])
           (+) SeqToBag(Records(queueData, recWords, Min(counter, NumElements)))
         = SeqToBag([j \in 1..cfg.c0 |-> Rec(j - 1, recWords)])
           (+) SeqToBag([j \in 1..Len(accepted) |-> Rec(accepted[j], recWords)])

\* C8 as stated: every slot below counter holds a completely written record.
C8_PublishedComplete ==
  \A s \in 0..(Min(counter, NumElements) - 1) : Complete(s)

\* C8: every slot below counter holds a completely written record or is
\* reserved by an enqueue that has raised counter and not finished its copy.
C8_CompleteOrReserved ==
  \A s \in 0..(Min(counter, NumElements) - 1) :
    Complete(s) \/ \E w \in Warps : s \in Reserved(w)

C8_Witness ==
  \E w \in Warps :
    /\ wst[w].pc = "copy"
    /\ wst[w].spos < NumElements
    /\ wst[w].spos < counter
    /\ ~Complete(wst[w].spos)

\* -------------------------------------------------- combiner properties
LocalFull(ch, p) == p < ChainLen /\ QueueFull(ch[p + 1].counter)

\* C9: with GotoGlobalChance = 0, an enqueue whose procedure's local buffer is
\* full is forwarded to the external queue and returns its result: true
\* whenever the external queue has space, with the record stored there, and the
\* local chain (counts and contents) is left as it was.
C9_FullLocalSpills ==
  [][(last'.op = "enqueue" /\ cfg.chance = 0 /\ LocalFull(chain, last'.proc))
       => /\ last'.extCalled
          /\ last'.ret = (Len(ext) < ExtCap)
          /\ (last'.ret => ext' = Append(ext, <<last'.proc, last'.rec>>))
          /\ (~last'.ret => ext' = ext)
          /\ chain' = chain]_vars

C9_Witness ==
  /\ last.op = "enqueue"
  /\ cfg.chance = 0
  /\ last.local = "rejected"
  /\ last.ret
  /\ LocalFull(chain, last.proc)
  /\ ext # <<>>
  /\ ext[Len(ext)] = <<last.proc, last.rec>>

StagesInOrder(st, ret) ==
  /\ Len(st) \in 1..3
  /\ st[1].tier = "local"
  /\ st[1].minPercent = SharedQueueFillupThreshold
  /\ Len(st) >= 2 => st[1].ret = 0 /\ st[2].tier = "ext"
  /\ Len(st) = 3 => st[2].ret = 0 /\ st[3].tier = "local" /\ st[3].minPercent = 0
  /\ Len(st) < 3 => st[Len(st)].ret > 0
  /\ ret = st[Len(st)].ret

\* C10: dequeue and dequeueStartRead consult the local chain at threshold
\* SharedQueueFillupThreshold first, the external queue only if that returned
\* 0, and the local chain at threshold 0 only if both returned 0; the first
\* positive result is returned and no later stage is touched.
C10_TierOrder ==
  [][/\ last'.op \in {"dequeue", "dequeueStartRead"}
         => StagesInOrder(last'.stages, last'.ret)
     /\ (last'.op = "dequeue" /\ Len(last'.stages) = 1)
         => /\ ext' = ext
            /\ last'.proc < ChainLen
            /\ chain'[last'.proc + 1].counter < chain[last'.proc + 1].counter
     /\ (last'.op = "dequeue" /\ Len(last'.stages) = 2)
         => /\ chain' = chain
            /\ Len(ext') = Len(ext) - last'.ret
     /\ (last'.op = "dequeue" /\ Len(last'.stages) = 3) => ext' = ext
     /\ (last'.op = "dequeueStartRead" /\ last'.ret > 0)
         => (IsLocal(last'.handle) <=> Len(last'.stages) # 2)]_vars

C10_Witness ==
  /\ last.op = "dequeue"
  /\ Len(last.stages) = 3
  /\ last.stages[1].ret = 0
  /\ last.stages[2].ret = 0
  /\ last.ret > 0

\* ---------------------------------------------------- planner properties
RECURSIVE SumOfSizes(_, _)
SumOfSizes(ch, i) ==
  IF i > Len(ch) THEN 0 ELSE ch[i].size + SumOfSizes(ch, i + 1)

\* C11: the build yields a layout only if the sizes of all entries together
\* are at most MaxSize; a directive list whose total exceeds MaxSize is
\* rejected by the build and never laid out.
C11_OverBudgetRejected ==
  last.op = "build" =>
    /\ last.accepted => SumSize(cfg.list, 1, cfg.MaxSize) <= cfg.MaxSize
    /\ SumSize(cfg.list, 1, cfg.MaxSize) > cfg.MaxSize => ~last.accepted
    /\ ~last.accepted => chain = <<>>
    /\ last.accepted =>
         /\ Len(chain) = Len(cfg.list)
         /\ SumOfSizes(chain, 1) <= cfg.MaxSize
         /\ \A i \in 1..Len(chain) :
              /\ chain[i].size = EntrySize(cfg.list, i, cfg.MaxSize)
              /\ chain[i].kind = "num" => chain[i].numElements = chain[i].arg

C11_Witness ==
  /\ last.op = "build"
  /\ ~last.accepted
  /\ chain = <<>>
  /\ SumSize(cfg.list, 1, cfg.MaxSize) > cfg.MaxSize
  /\ \E i \in 1..Len(cfg.list) : cfg.list[i].kind = "dyn"

\* C12: in every layout the byte ranges [offset, offset + size) of the buffers
\* are pairwise disjoint, every offset and size is a multiple of 16, each
\* offset is the sum of the sizes of the entries before it, and every range
\* ends within MaxSize.
C12_RangesDisjointAligned ==
  (last.op = "build" /\ last.accepted) =>
    /\ \A i \in 1..Len(chain) :
         /\ chain[i].offset % 16 = 0
         /\ chain[i].size % 16 = 0
         /\ chain[i].size >= 0
         /\ chain[i].offset = SumOfSizes(SubSeq(chain, 1, i - 1), 1)
         /\ chain[i].offset + chain[i].size <= cfg.MaxSize
    /\ \A i, j \in 1..Len(chain) :
         i < j => chain[i].offset + chain[i].size <= chain[j].offset

C12_Witness ==
  /\ last.op = "build"
  /\ last.accepted
  /\ Len(chain) = PlanEntries
  /\ \E i, j \in 1..Len(chain) :
       /\ chain[i].kind = "dyn"
       /\ chain[j].kind # "dyn"
       /\ chain[i].offset > 0
       /\ chain[i].numElements > 0

DynEntries(ch) == {i \in 1..Len(ch) : ch[i].kind = "dyn"}

RECURSIVE SumOver(_, _, _)
SumOver(ch, S, field) ==
  IF S = {} THEN 0
  ELSE LET i == CHOOSE x \in S : TRUE
       IN ch[i][field] + SumOver(ch, S \ {i}, field)

\* What is left of MaxSize after the entries that are not dynamic
Remaining(ch, MaxSize) ==
  MaxSize - SumOver(ch, (1..Len(ch)) \ DynEntries(ch), "size")

\* the share of the remaining budget in proportion to the ratio, in whole
\* records behind the header, rounded up to 16 bytes
ProportionalSize(ch, i, MaxSize) ==
  Make16(CDiv(CDiv(Remaining(ch, MaxSize) * ch[i].arg,
                   SumOver(ch, DynEntries(ch), "arg")) - HeaderSize,
              ch[i].bytes) * ch[i].bytes + HeaderSize)

\* C13: a dynamic entry's size is (MaxSize - fixed total) * ratio / (sum of the
\* dynamic ratios), rounded down to whole records and up to 16 bytes; with
\* equal record sizes a larger ratio never gets a smaller capacity, and a
\* ratio twice as large gets a larger buffer.
C13_ProportionalShare ==
  (last.op = "build" /\ last.accepted) =>
    /\ \A i \in DynEntries(chain) :
         chain[i].size = ProportionalSize(chain, i, cfg.MaxSize)
    /\ \A i, j \in DynEntries(chain) :
         (chain[i].bytes = chain[j].bytes /\ chain[i].arg >= chain[j].arg)
           => chain[i].numElements >= chain[j].numElements
    /\ \A i, j \in DynEntries(chain) :
         (/\ chain[i].bytes = chain[j].bytes
          /\ chain[i].arg = 2 * chain[j].arg
          /\ chain[j].numElements >= 4)
           => chain[i].numElements > chain[j].numElements

\* C14: dynamic entries with equal ratios and equal record sizes get equal
\* capacities, and their sizes together use up what the fixed entries leave of
\* MaxSize, up to the rounding of each entry to whole records and 16 bytes.
C14_EqualSharesFillBudget ==
  (/\ last.op = "build"
   /\ last.accepted
   /\ DynEntries(chain) # {}
   /\ \A i, j \in DynEntries(chain) :
        chain[i].arg = chain[j].arg /\ chain[i].bytes = chain[j].bytes)
    => LET D    == DynEntries(chain)
           used == SumOver(chain, D, "size")
           left == Remaining(chain, cfg.MaxSize)
           b    == chain[CHOOSE i \in D : TRUE].bytes
       IN /\ \A i, j \in D : chain[i].numElements = chain[j].numElements
          /\ used <= left
          /\ used >= left - Cardinality(D) * (b + 16)

\* ------------------------------------------------------ chain properties
\* the effective cap and the qualification test of entry e
SelectedCap(e, maxNum) ==
  IF maxNum # -1 THEN Min(GetElementCount(ChainProc(e)), maxNum)
  ELSE GetElementCount(ChainProc(e))

Qualifies(ch, e, cap, minPercent) ==
  ch[e].counter >= Min(cap, (minPercent * NumElements) \div 100 + 1)

\* C15: dequeueSelected(procId) drains only the buffer of procedure procId: it
\* never changes the count of a buffer of another procedure nor returns its
\* records, also when an earlier entry of another procedure meets its
\* threshold; if the matching buffer does not qualify it returns 0.
C15_SelectedOnlyMatching ==
  [][last'.op = "dequeueSelected" =>
       LET m == last'.procId + 1
       IN /\ \A e \in 1..ChainLen : e # m => chain'[e] = chain[e]
          /\ last'.ret > 0 =>
               /\ m <= ChainLen
               /\ chain'[m].counter = chain[m].counter - last'.ret
               /\ \A i \in 0..(last'.ret - 1) :
                    out'[i] = chain[m].data[chain'[m].counter + i]
          /\ (m > ChainLen
              \/ ~Qualifies(chain, m, SelectedCap(m, last'.maxNum),
                            last'.minPercent))
               => last'.ret = 0]_vars

\* the effective cap of entry e in dequeue
DequeueCap(e, maxShared) ==
  IF maxShared = -1 THEN GetElementCount(ChainProc(e))
  ELSE Min(GetElementCount(ChainProc(e)),
           maxShared \div (4 * recWords + SharedMemoryOf(ChainProc(e))))

C17_HandleRoundTrip ==
  [][/\ (last'.op = "dequeueStartRead" /\ last'.ret > 0) =>
          IF Len(last'.stages) # 2
          THEN LET e == last'.proc + 1
               IN /\ e <= ChainLen
                  /\ last'.handle =
                       (chain[e].counter - last'.ret) + TierBit
                  /\ last'.handle % TierBit = chain[e].counter - last'.ret
                  /\ (last'.handle \div TierBit) % 2 = 1
          ELSE (last'.handle \div TierBit) % 2 = 0
     /\ (last.op = "dequeueStartRead" /\ last'.op = "finishRead") =>
          IF Len(last.stages) # 2
          THEN LET e == last.proc + 1
               IN /\ last'.tier = "local"
                  /\ ext' = ext
                  /\ (last'.handle % TierBit) + last'.num = chain[e].counter
                  /\ chain'[e].counter = last'.handle % TierBit
                  /\ \A x \in 1..ChainLen : x # e => chain'[x] = chain[x]
          ELSE /\ last'.tier = "ext"
               /\ chain' = chain
               /\ Len(ext') = Len(ext) - last'.num]_vars

C17_Witness ==
  /\ last.op = "finishRead"
  /\ last.tier = "local"
  /\ last.handle > TierBit
  /\ last.num > 0

\* ---- the two enqueue paths
NumTrue(rets) == Cardinality({j \in DOMAIN rets : rets[j]})

\* what the other path makes of the same call, its atomics served in order o
OtherPath(recs, o) ==
  Enqueue(~warpOpt, counter, queueData, recWords, recs, o)

StoredBag(d, c) == SeqToBag(Records(d, recWords, c))

\* C18 (as stated): for the same count and the same lanes the two paths end
\* with the same count, the same number of lanes returning true and the same
\* multiset of records below count.
C18_PathsEquivalent ==
  [][last'.op = "enqueue" =>
       \A o \in Perms(1..Len(last'.recs)) :
         LET r == OtherPath(last'.recs, o)
         IN /\ r.counter = counter'
            /\ NumTrue(r.rets) = NumTrue(last'.rets)
            /\ StoredBag(r.data, r.counter) = StoredBag(queueData', counter')]_vars

\* C18 (amended): the two paths end with the same count and the same number of
\* lanes returning true; each stores, above the records already there, exactly
\* the records of its lanes that returned true; the multisets agree whenever
\* all lanes fit or the same lanes returned true.
C18_PathsAgreeOnCounts ==
  [][last'.op = "enqueue" =>
       \A o \in Perms(1..Len(last'.recs)) :
         LET recs == last'.recs
             k    == Len(recs)
             r    == OtherPath(recs, o)
             new(rets) == {Rec(recs[j], recWords) : j \in {x \in 1..k : rets[x]}}
             old  == {Slot(queueData, s, recWords) : s \in 0..(counter - 1)}
             set(d, c) == {Slot(d, s, recWords) : s \in 0..(c - 1)}
         IN /\ r.counter = counter'
            /\ r.counter = Min(NumElements, counter + k)
            /\ NumTrue(r.rets) = NumTrue(last'.rets)
            /\ NumTrue(r.rets) = r.counter - counter
            /\ set(r.data, r.counter) = old \cup new(r.rets)
            /\ set(queueData', counter') = old \cup new(last'.rets)
            /\ (counter + k <= NumElements \/ r.rets = last'.rets)
                 => StoredBag(r.data, r.counter) = StoredBag(queueData', counter')]_vars

C18_Witness ==
  /\ last.op = "enqueue"
  /\ \E i, j \in DOMAIN last.rets : last.rets[i] /\ ~last.rets[j]
  /\ counter = NumElements

\* ---- termination
BarDone == \A t \in Lanes : wst[t].pc = "done"

\* C19: every whole-group dequeue and finishRead completes for all lanes: all
\* lanes pass the same number of barriers, none is left waiting at a barrier,
\* and a dequeue returns a count >= 0, for every count, start index, take and
\* group size.
C19_AllLanesReturn ==
  /\ <>BarDone
  /\ [](\A t, u \in Lanes :
          /\ (wst[t].pc \in BarrierPcs /\ wst[u].pc \in BarrierPcs)
               => (wst[t].pc = wst[u].pc /\ wst[t].bars = wst[u].bars
                   /\ wst[t].i = wst[u].i)
          /\ wst[t].pc = "done" =>
               (wst[t].ret >= 0 /\ wst[u].pc \notin BarrierPcs))

C19_Witness ==
  /\ BarDone
  /\ cfg.op = "finishRead"
  /\ blockDim > 1
  /\ wst[0].add > 0
  /\ wst[0].add % blockDim # 0
  /\ wst[0].bars > 4
  /\ queueData = FinishRead(last.counter, last.data, recWords, cfg.id, cfg.num,
                            blockDim).data

\* ---- procedures without a buffer
\* C20: enqueue for a procedure that has no entry in the chain is never a
\* run-time outcome: no enqueue call on the chain returns false because the
\* procedure has no buffer.
C20_NoRuntimeUnknownType ==
  [][(last'.op = "enqueue" /\ ~last'.ret)
       => \E e \in 1..ChainLen :
            ChainProc(e) = last'.proc /\ QueueFull(chain[e].counter)]_vars

\* ------------------------------------------------- workerStart
\* SharedCombinerQueue::workerStart calls SharedQ::init, which every lane of
\* the group runs: for each chain element in turn clean(threadIdx.x,
\* blockDim.x) and then writeHeader(), with no barrier in between. One store
\* of one lane per step; shared memory is not initialized at the start.
StartLanes == 5
HeaderWords == 4
HeaderShift == 65536
Stale == 5

RECURSIVE BitOr(_, _)
BitOr(a, b) ==
  IF a = 0 THEN b
  ELSE IF b = 0 THEN a
  ELSE (IF a % 2 = 1 \/ b % 2 = 1 THEN 1 ELSE 0)
         + 2 * BitOr(a \div 2, b \div 2)

\* procId_maxnum = (ProcId << 16) | NumElements;
WriteHeader(ProcId, numElements) == BitOr(ProcId * HeaderShift, numElements)
\* procId_maxnum >> 16
ProcIdOf(procId_maxnum) == procId_maxnum \div HeaderShift
\* procId_maxnum & 0xFFFF
NumElementOf(procId_maxnum) == procId_maxnum % HeaderShift

\* i += threads in clean's loop
CleanStepOnce(i, threads) == HeaderWords
CleanStep(i, threads) == i + threads

InitStart ==
  /\ warpOpt = TRUE
  /\ recWords = 1
  /\ blockDim \in 1..StartLanes
  /\ cfg \in [word : {Junk, Stale}]
  /\ chain = [e \in 1..ChainLen |-> [i \in 0..(HeaderWords - 1) |-> cfg.word]]
  /\ wst = [t \in Lanes |-> [pc |-> "clean", e |-> 1, i |-> t]]
  /\ counter = 0
  /\ queueData = <<>>
  /\ out = <<>>
  /\ last = [op |-> "init"]
  /\ nextRec = 0
  /\ accepted = <<>>
  /\ returned = <<>>
  /\ reads = 0
  /\ rd = NoRead
  /\ ext = <<>>

StartFixed == <<warpOpt, recWords, blockDim, counter, queueData, out, last,
                nextRec, accepted, returned, reads, rd, cfg, ext>>

\* reinterpret_cast<uint*>(this)[i] = 0; i += threads;  (lines 55-56)
StartClean(t) ==
  /\ wst[t].pc = "clean"
  /\ wst[t].i < HeaderWords
  /\ chain' = [chain EXCEPT ![wst[t].e][wst[t].i] = 0]
  /\ wst' = [wst EXCEPT ![t].i = CleanStep(@, blockDim)]
  /\ UNCHANGED StartFixed

\* writeHeader() after clean's loop has ended, then init of the next element
\* (lines 436-437, 60); the end of the chain's init is empty (line 545).
StartWriteHeader(t) ==
  /\ wst[t].pc = "clean"
  /\ wst[t].i >= HeaderWords
  /\ chain' = [chain EXCEPT ![wst[t].e][0] =
                 WriteHeader(ChainProc(wst[t].e), NumElements)]
  /\ wst' = [wst EXCEPT ![t] =
               IF wst[t].e < ChainLen
               THEN [@ EXCEPT !.e = @ + 1, !.i = t]
               ELSE [@ EXCEPT !.pc = "done"]]
  /\ UNCHANGED StartFixed

NextStart ==
  \/ \E t \in Lanes : StartClean(t)
  \/ \E t \in Lanes : StartWriteHeader(t)

SpecStart == InitStart /\ [][NextStart]_vars

\* ------------------------------------- enqueue<ThreadsPerElement>
\* One warp calls the warp-optimized enqueue<ThreadsPerElement> with the lanes
\* of mask active; ThreadsPerElement consecutive ranks offer one record.
TpeLanes == 4
MaxThreadsPerElement == 3
TpeCalls == 2

\* __popc(Tools::lanemask_lt() & mask)
MyPos(mask, t) == Cardinality({u \in mask : u < t})

\* enqueue<ThreadsPerElement>(data), lines 87-116: the counter afterwards, the
\* record array, and for every active lane its qpos and its return value.
\* The lane of rank m offers record base + m / ThreadsPerElement.
EnqueueTpe(c, d, w, T, mask, base) ==
  LET ourcount == CDiv(Cardinality(mask), T)
      spos     == c
      canPut   == CanPut(spos, ourcount)
      after    == IF canPut < ourcount
                  THEN AtomicSub(AtomicAdd(c, ourcount), ourcount - canPut)
                  ELSE AtomicAdd(c, ourcount)
      qpos     == [t \in mask |-> spos + CDiv(MyPos(mask, t), T)]
      ret      == [t \in mask |-> qpos[t] < NumElements]
  IN IF QueueFull(c)
     THEN [counter |-> c, data |-> d, qpos |-> [t \in mask |-> -1],
           rets |-> [t \in mask |-> FALSE]]
     ELSE [counter |-> after,
           data |-> [x \in DOMAIN d |->
                       IF \E t \in mask : /\ ret[t]
                                          /\ qpos[t] = x \div w
                                          /\ (x % w) % T = t % T
                       THEN RecWord(base + (x \div w) - spos, x % w)
                       ELSE d[x]],
           qpos |-> qpos,
           rets |-> ret]

InitTpe ==
  /\ warpOpt = TRUE
  /\ recWords \in {1, MaxWords}
  /\ blockDim = TpeLanes
  /\ counter \in 0..NumElements
  /\ queueData = Prefill([x \in 0..(NumElements * recWords - 1) |-> Junk],
                         recWords, counter)
  /\ cfg \in [ThreadsPerElement : 2..MaxThreadsPerElement]
  /\ last = [op |-> "init"]
  /\ nextRec = 0
  /\ reads = 0
  /\ out = <<>>
  /\ accepted = <<>>
  /\ returned = <<>>
  /\ rd = NoRead
  /\ wst = <<>>
  /\ chain = <<>>
  /\ ext = <<>>

TpeFixed == <<warpOpt, recWords, blockDim, out, accepted, returned, rd, wst,
              cfg, chain, ext, nextRec>>

TpeEnqueue ==
  \E mask \in SUBSET (0..(TpeLanes - 1)) \ {{}} :
    /\ reads < TpeCalls
    /\ LET r == EnqueueTpe(counter, queueData, recWords, cfg.ThreadsPerElement,
                           mask, NumElements + reads * TpeLanes)
       IN /\ counter' = r.counter
          /\ queueData' = r.data
          /\ last' = [op |-> "enqueue", mask |-> mask, spos |-> counter,
                      qpos |-> r.qpos, rets |-> r.rets]
    /\ reads' = reads + 1
    /\ UNCHANGED TpeFixed

NextTpe == TpeEnqueue

SpecTpe == InitTpe /\ [][NextTpe]_vars

\* ---- group-optimized reservation
\* the records of a request of k that fit behind base index spos
Fits(spos, k) == Min(k, Max(0, NumElements - spos))

\* C21: a warp-optimized enqueue of k records that finds r free slots performs
\* one fetch-and-add of k, gives back the excess k - min(k, r) with one atomic
\* subtract, writes exactly the min(k, r) lowest-ranked records, whose lanes
\* return true, and leaves count at count + min(k, r).
C21_PartialSpaceReservation ==
  [][warpOpt =>
       \A w \in Warps :
         LET l == wst[w]
             k == l.k
         IN /\ (l.pc = "add" /\ wst'[w].pc # "add") =>
                 /\ counter' = counter + k
                 /\ wst'[w].spos = counter
                 /\ wst'[w].pc = IF Fits(counter, k) < k THEN "sub" ELSE "copy"
            /\ (l.pc = "sub" /\ wst'[w].pc # "sub") =>
                 /\ counter' = counter - (k - Fits(l.spos, k))
                 /\ wst'[w].pc = "copy"
            /\ (l.pc = "copy" /\ wst'[w].pc # "copy") =>
                 LET m == Fits(l.spos, k)
                 IN /\ accepted' = accepted \o [j \in 1..m |-> ConcRec(w, j - 1)]
                    /\ \A s \in 0..(NumElements - 1) :
                         Slot(queueData', s, recWords) =
                           IF s \in l.spos..(l.spos + m - 1)
                           THEN Rec(ConcRec(w, s - l.spos), recWords)
                           ELSE Slot(queueData, s, recWords)
                    /\ counter' = counter
                    /\ (\A v \in Warps \ {w} : wst[v] = Idle)
                         => counter = cfg.c0 + Min(k, NumElements - cfg.c0)]_vars

C21_Witness ==
  /\ warpOpt
  /\ wst[0].pc = "idle"
  /\ wst[0].calls = 1
  /\ wst[0].k = ConcLanes
  /\ Len(accepted) >= 1
  /\ Len(accepted) < wst[0].k
  /\ counter = NumElements
  /\ \A v \in Warps \ {0} : wst[v] = Idle

\* ---- concurrent enqueues
EnqPcs == {"idle", "add", "sub", "copy"}
NoDequeueYet == \A w \in Warps : wst[w].pc \in EnqPcs
EnqueuesDone == \A w \in Warps : wst[w].pc = "idle" /\ wst[w].calls = 1

\* the slots of the record array that hold record id
SlotsOf(id) ==
  {s \in 0..(NumElements - 1) : Slot(queueData, s, recWords) = Rec(id, recWords)}

Offered == {ConcRec(w, j) : w \in Warps, j \in 0..(ConcLanes - 1)}

\* C22: in every interleaving of concurrent enqueues without a dequeue, the
\* enqueues that returned true wrote distinct slots inside [0, NumElements), an
\* enqueue that returned false wrote no slot, the records stored before stay,
\* and once all have returned count is the initial count plus the number of
\* enqueues that returned true.
C22_ConcurrentEnqueuesDistinct ==
  NoDequeueYet =>
    /\ \A i \in 1..Len(accepted) : Cardinality(SlotsOf(accepted[i])) = 1
    /\ \A i, j \in 1..Len(accepted) : i # j => accepted[i] # accepted[j]
    /\ \A id \in Offered :
         (\A i \in 1..Len(accepted) : accepted[i] # id) => SlotsOf(id) = {}
    /\ \A s \in 0..(cfg.c0 - 1) : Slot(queueData, s, recWords) = Rec(s, recWords)
    /\ EnqueuesDone => counter = cfg.c0 + Len(accepted)

C22_Witness ==
  /\ NoDequeueYet
  /\ EnqueuesDone
  /\ Len(accepted) >= 1
  /\ \E w \in Warps : wst[w].k >= 1 /\ SlotsOf(ConcRec(w, wst[w].k - 1)) = {}
  /\ counter = NumElements

\* ---- the snapshot of count in dequeue
PastBarrier == {"after", "copyout", "done"}

\* C23: in one dequeue by the whole group every lane works with the same
\* snapshot n of count, hence the same take, offset and return value, and the
\* count written back is computed from that snapshot, also when other lanes
\* complete enqueues after the first lanes have entered dequeue.
C23_SingleSnapshot ==
  \A v, w \in Warps :
    (wst[v].pc \in PastBarrier /\ wst[w].pc \in PastBarrier) =>
      /\ wst[v].n = wst[w].n
      /\ (wst[v].pc = "done" /\ wst[w].pc = "done") => wst[v].take = wst[w].take

\* C24: in dequeue, count is lowered only after the copy into the destination
\* has finished for every lane of the group.
C24_CountLoweredAfterCopy ==
  [][\A w \in Warps :
       (wst[w].pc = "after" /\ wst'[w].pc = "copyout")
         => \A v \in Warps \ {w} : wst[v].pc = "done"]_vars

\* ---- the opening half of a two-phase read
\* C25: reserveRead and startRead leave the count and the contents of every
\* buffer unchanged; reserveRead returns max(0, min(maxnum, count)), or 0 when
\* only_read_all is set and count < maxnum; startRead returns the index
\* count - take; the chain's dequeueStartRead, which calls both on the first
\* qualifying entry, changes no buffer.
C25_StartReadPure ==
  [][/\ last'.op = "startRead" =>
          LET c == chain[last'.entry].counter
          IN /\ chain' = chain
             /\ last'.ret = IF last'.only_read_all /\ c < last'.maxnum THEN 0
                            ELSE Max(0, Min(last'.maxnum, c))
             /\ last'.id = c - last'.ret
     /\ last'.op = "dequeueStartRead" =>
          /\ chain' = chain
          /\ last'.ret > 0 =>
               LET e == last'.proc + 1
                   c == chain[e].counter
               IN /\ e \in 1..ChainLen
                  /\ last'.ret = Min(MaxElementsStartRead(last'.proc,
                                                          last'.maxShared), c)
                  /\ last'.id = c - last'.ret]_vars

C25_Witness ==
  /\ last.op = "startRead"
  /\ last.ret > 0
  /\ last.id > 0
  /\ chain[last.entry].counter = last.id + last.ret

\* ---- residual local work
\* C26: whenever the external queue returns 0 and some local buffer is not
\* empty, the combiner's dequeue returns a positive count through its pass
\* with threshold 0, for every chain order and every effective cap of the
\* request, also a cap of 0 and an empty earlier entry. (Stated for a
\* non-empty buffer of which the request admits at least one record.)
C26_ResidualLocalServed ==
  [][(/\ last'.op = "dequeue"
      /\ Len(last'.stages) = 3
      /\ \E e \in 1..ChainLen :
           /\ chain[e].counter > 0
           /\ \A maxShared \in CombMaxShared :
                MaxElementsDequeue(ChainProc(e), maxShared) >= 1)
       => last'.ret > 0]_vars

\* ---- start of a worker
StartDone == \A t \in Lanes : wst[t].pc = "done"

\* C27: after workerStart has been executed by all lanes of a group, for any
\* group size >= 1 and any interleaving of the lanes' clean and writeHeader
\* stores, every chain buffer has count 0 and a header from which procId()
\* and numElement() return its procedure id and its capacity.
C27_StartedBuffersEmpty ==
  StartDone =>
    \A e \in 1..ChainLen :
      /\ Count(chain[e][1]) = 0
      /\ ProcIdOf(chain[e][0]) = ChainProc(e)
      /\ NumElementOf(chain[e][0]) = NumElements

C27_Witness ==
  /\ StartDone
  /\ cfg.word = Stale
  /\ blockDim = 1
  /\ chain[ChainLen][0] = WriteHeader(ChainProc(ChainLen), NumElements)

\* ---- several lanes per record
\* C28: in the warp-optimized enqueue with ThreadsPerElement > 1 the number
\* of records reserved equals the number of distinct slots written by the
\* lanes that return true, for every set of active lanes, and no lane that
\* returns true writes a slot at or above base + reserved count.
C28_ReservedEqualsWritten ==
  [][last'.op = "enqueue" =>
       LET reserved == counter' - counter
           written  == {last'.qpos[t] :
                          t \in {u \in last'.mask : last'.rets[u]}}
       IN /\ Cardinality(written) = reserved
          /\ \A s \in written : s < last'.spos + reserved]_vars

\* ---- bounds of the record array
\* C29: every access to the record array stays inside [0, NumElements) in
\* every interleaving of the operations, also while count transiently exceeds
\* NumElements: no word a dequeuing lane has copied to the destination was
\* read from outside the array.
C29_AccessesInRange == \A x \in DOMAIN out : out[x] # Foreign

\* ---- delivery of records
\* The records a dequeue that returned take has put into the destination.
Delivered(take) ==
  [j \in 1..take |->
     [i \in 0..(recWords - 1) |-> RdWord(out, (j - 1) * recWords + i)]]

\* C30: no record is delivered twice: the records a dequeue hands to a lane
\* that returns take are pairwise different (no startRead is open in these
\* runs, so the proviso on finishRead holds).
C30_NoDoubleDelivery ==
  AllDone =>
    \A w \in Warps :
      \A i, j \in 1..wst[w].take :
        i # j => Delivered(wst[w].take)[i] # Delivered(wst[w].take)[j]

\* ---- capacity of a planned buffer
\* C31: for every directive of an accepted list (fixed count, fixed byte
\* size, dynamic share) the computed capacity is >= 0 and the buffer fits its
\* planned range: HeaderSize + capacity * record size <= size.
C31_CapacityFitsSize ==
  (last.op = "build" /\ last.accepted) =>
    \A i \in 1..Len(chain) :
      /\ chain[i].numElements >= 0
      /\ chain[i].size >= HeaderSize
      /\ chain[i].numElements <= (chain[i].size - HeaderSize) \div chain[i].bytes

\* ---- one tier per record
\* how often record rec is stored below count in the chain, and in the
\* external queue
InChain(ch, rec) ==
  Cardinality({<<e, x>> \in (1..ChainLen) \X (0..(NumElements - 1)) :
                 /\ x < ch[e].counter
                 /\ Slot(ch[e].data, x, recWords) = Rec(rec, recWords)})
InExt(ex, rec) == Cardinality({i \in DOMAIN ex : ex[i][2] = rec})

\* C32: a record accepted by the combiner's enqueue is stored in exactly one
\* tier: if the local chain accepts it the external queue is not called; the
\* external queue is called only when the local chain was skipped by the
\* GotoGlobalChance test or returned false; when that test routes to the
\* external queue the local chain is left unchanged; the call returns true
\* iff one tier accepted the record, and false leaves both tiers without it.
C32_OneTierPerRecord ==
  [][last'.op = "enqueue" =>
       LET rec == last'.rec
       IN /\ InChain(chain, rec) + InExt(ext, rec) = 0
          /\ InChain(chain', rec) + InExt(ext', rec) =
               IF last'.ret THEN 1 ELSE 0
          /\ last'.local = "accepted" =>
               /\ ~last'.extCalled
               /\ ext' = ext
               /\ InChain(chain', rec) = 1
          /\ last'.extCalled => last'.local \in {"skipped", "rejected"}
          /\ last'.local = "skipped" => cfg.chance > 0 /\ chain' = chain
          /\ last'.local = "rejected" => chain' = chain
          /\ last'.ret <=> (InChain(chain', rec) = 1 \/ InExt(ext', rec) = 1)
          /\ ~last'.ret => chain' = chain /\ ext' = ext]_vars

C32_Witness ==
  /\ last.op = "enqueue"
  /\ cfg.chance > 0
  /\ last.local = "skipped"
  /\ last.ret
  /\ last.proc < ChainLen
  /\ ~QueueFull(chain[last.proc + 1].counter)
  /\ InExt(ext, last.rec) = 1
  /\ InChain(chain, last.rec) = 0

====
